---- MODULE Spec2Model ----
(***************************************************************************)
(* Model of the lock-free messaging toolkit: the Messenger (a pop-all LIFO *)
(* "lifo" of sent nodes plus a "storage" LIFO of recyclable nodes) and the *)
(* AsyncObject built on it.                                                *)
(*                                                                         *)
(* Every access to a stack head is one step; work on nodes a thread holds  *)
(* exclusively is folded into the step that precedes it.                   *)
(*                                                                         *)
(*   SpecM : threads using one Messenger through its public interface.     *)
(*   SpecA : one AsyncObject with its Producers, Instances and the worker  *)
(*           executing timerCallback (the revision whose timerCallback     *)
(*           locks the mutex of the object).                               *)
(*   SpecB : the same with the timerCallback of class Async, which takes   *)
(*           no lock of the object.                                        *)
(*   SpecD : SpecA with the loop of the AsyncThread, stop() and the        *)
(*           destructors of Producer and Instance.                         *)
(*   SpecE : SpecB with the access tokens of class Async being reset.      *)
(*   SpecR : one RealtimeObject, a realtime and a non-realtime thread.     *)
(*   SpecW : the same with several non-realtime threads.                   *)
(*   SpecK : one Messenger with k preallocated nodes and one thread.       *)
(*   SpecQ : one Messenger, every operation, called by a single thread.    *)
(*   SpecT : one AsyncThread: start(), stop(), isRunning() and the worker; *)
(*           SpecTF is SpecT with the threads scheduled fairly.            *)
(*   SpecO : SpecD with the shared ownership of the AsyncObject: the user, *)
(*           the AsyncThread, the Producers and the Instances.             *)
(*   SpecU : AsyncThreads with their workers, and threads that attach and  *)
(*           detach AsyncObjects; SpecUF is SpecU scheduled fairly.        *)
(*   SpecV : SpecU for the AsyncThread whose worker takes no mutex.        *)
(***************************************************************************)
EXTENDS Integers, Sequences, FiniteSets, TLC

\* ------------------------------------------------------------------ bounds
NumThreads == 2      \* threads using the Messenger in SpecM
MaxNodes == 3        \* nodes the Messenger of SpecM may allocate in total
MaxMsgs == 2         \* messages sent in SpecM

NumProducers == 2    \* Producers of the AsyncObject in SpecA
MaxChanges == 2      \* changes each Producer submits in SpecA
NumInstances == 1    \* Instances of the AsyncObject in SpecA

Thread == {<<"t", k>> : k \in 1..NumThreads}
Msg == 1..MaxMsgs

\* the Messenger of SpecM
M == <<"M", 0>>

VARIABLES
  head,       \* head[s]: atomic head link of stack s (0 is nullptr)
  next,       \* next[n]: links_[LINK_INDEX_1] of node n; DOMAIN next = nodes allocated
  message,    \* message[n]: payload of node n (0: default constructed / none)
  freed,      \* nodes that were deleted
  pc,         \* pc[p]: position of thread p
  node,       \* node[p]: the local node/head pointer of the operation, or the chain p holds
  front,      \* front[p], back[p]: arguments of the push_multiple in progress
  back,
  seen,       \* seen[p]: head value read by the push in progress
  held,       \* held[p]: chain of received nodes the caller keeps (0: none)
  arg,        \* arg[p]: the message argument of the send in progress (0: none)
  ret,        \* ret[p]: result of the last completed operation of p
  nsent,      \* number of payloads handed to send so far
  fate,       \* fate[m]: what happened to payload m (history)
  \* the AsyncObject
  producers,      \* std::vector<Producer*> producers
  instances,      \* std::vector<Instance*> instances
  objectSettings, \* ObjectSettings objectSettings: the changes applied, in order
  mutex,          \* std::mutex mutex: the set of threads inside a lock_guard
  object,         \* object[i]: Instance::object of Instance i (0: not constructed)
  objVal,         \* objVal[o]: the settings Object o was constructed from
  objState,       \* objState[o]: "alive", "destroyed", or "destroyed twice"
  widx,           \* position of timerCallback in the loop it is executing
  anyChange,      \* bool anyChange of timerCallback
  chg,            \* chg[c]: what happened to change c (history)
  tickSubmitted,  \* changes whose submission had returned when the tick began (history)
  builtNow,       \* Objects constructed by the tick in progress (history)
  lastSent        \* lastSent[i]: Object of the last completed send to Instance i (history)

mvars == <<head, next, message, freed, pc, node, front, back, seen, held, arg, ret, nsent,
           fate>>
avars == <<producers, instances, objectSettings, mutex, object, objVal, objState,
           widx, anyChange, chg, tickSubmitted, builtNow, lastSent>>
vars == <<mvars, avars>>

\* ------------------------------------------------------------ node chains
Lifo(m) == <<m[1], m[2], "lifo">>
Storage(m) == <<m[1], m[2], "storage">>

Allocated == DOMAIN next
nalloc == Cardinality(Allocated)

RECURSIVE ChainN(_, _)
ChainN(h, fuel) ==
  IF h = 0 \/ fuel = 0 THEN <<>> ELSE <<h>> \o ChainN(next[h], fuel - 1)

\* the nodes linked from h through next(), h first
Chain(h) == ChainN(h, nalloc + 1)

RECURSIVE PathN(_, _, _)
PathN(f, b, fuel) ==
  IF f = 0 \/ fuel = 0 THEN <<>>
  ELSE IF f = b THEN <<f>> ELSE <<f>> \o PathN(next[f], b, fuel - 1)

\* the nodes from f to b inclusive
Path(f, b) == PathN(f, b, nalloc + 1)

Range(s) == {s[i] : i \in 1..Len(s)}

\* MessageNode::last()
RECURSIVE LastN(_, _)
LastN(it, fuel) ==
  IF fuel = 0 \/ next[it] = 0 THEN it ELSE LastN(next[it], fuel - 1)

\* a last() that does not follow the links
last_first(it) == it

last(it) == LastN(it, nalloc + 1)

\* MessageNode::count()
count(it) == Len(Chain(it))

Payloads(h) == [i \in 1..Len(Chain(h)) |-> message[Chain(h)[i]]]

Occurrences(s, x) == Cardinality({i \in 1..Len(s) : s[i] = x})

\* ------------------------------------------------------- LifoStack (4.1)
\* pop_all: exchange the head with null
pop_all(s) == [head EXCEPT ![s] = 0]

\* push / push_multiple, first half: read the head and store it in back->next
push_link(b, h) == [next EXCEPT ![b] = h]

\* a compare-and-swap that stores whatever the head is now
push_cas_ok_blind(s, p) == TRUE

\* push / push_multiple, second half: CAS the head from the value read to f
push_cas_ok(s, p) == head[s] = seen[p]
push_cas(s, p, f) == IF push_cas_ok(s, p) THEN [head EXCEPT ![s] = f] ELSE head

\* delete every node of a chain (freeMessageStack)
freeMessageStack(h) ==
  /\ freed' = freed \cup Range(Chain(h))
  /\ next' = [n \in Allocated |-> IF n \in Range(Chain(h)) THEN 0 ELSE next[n]]
  /\ message' = [n \in Allocated |-> IF n \in Range(Chain(h)) THEN 0 ELSE message[n]]

\* ---------------------------------------------------------------- history
\* payloads of a popped chain: seenBy are handed to the caller, the others dropped
Settle(obs, dropped, how) ==
  [m \in Msg |->
     IF Occurrences(obs \o dropped, m) = 0 THEN fate[m]
     ELSE IF Occurrences(obs \o dropped, m) > 1 \/ fate[m] # "sent" THEN "dup"
     ELSE IF Occurrences(obs, m) = 1 THEN "received" ELSE how]

\* --------------------------------------------------- Messenger, the steps
\* The steps are written for a caller p and a Messenger m and leave pc to
\* the action that uses them.

\* a send that reuses a node without storing the message in it
setMessage_skipped(n, msg) == message[n]

\* node->set(std::move(message)) of send / sendIfNodeAvailable
setMessage(n, msg) == msg

\* a send that forgets the rest of the storage it popped
sendRemainder_dropped(n) == 0

\* auto next = node->next() of send / sendIfNodeAvailable: the rest of the storage
sendRemainder(n) == next[n]

\* a receiveLastNode that recycles the whole chain, head included
receiveLastNodeRest_head(h) == h

\* first argument of push_multiple in receiveLastNode
receiveLastNodeRest(h) == next[h]

\* start of a push_multiple(f, last(f)) or push(f): remember the arguments
Args(p, f) ==
  /\ front' = [front EXCEPT ![p] = f]
  /\ back' = [back EXCEPT ![p] = IF f = 0 THEN 0 ELSE last(f)]

NoArgs(p) ==
  /\ front' = [front EXCEPT ![p] = 0]
  /\ back' = [back EXCEPT ![p] = 0]

\* new MessageNode<T>(msg): the next unused address. The allocator is free in
\* its choice of addresses: each Messenger is given a range of its own, so that
\* the address of a node does not depend on what other Messengers allocated.
Arena(m) == IF m[1] = "prod" THEN m[2] ELSE IF m[1] = "to" THEN NumProducers + m[2] ELSE 0
ArenaSize == MaxNodes + NumProducers * MaxChanges
NewNode(m) ==
  Arena(m) * ArenaSize
  + Cardinality({n \in Allocated : (n - 1) \div ArenaSize = Arena(m)}) + 1

\* send(T&&), from storage.pop_all() to the detaching of the first node
TakeFromStorage(p, m, msg) ==
  LET n == head[Storage(m)] IN
  /\ n # 0
  /\ head' = pop_all(Storage(m))
  /\ message' = [message EXCEPT ![n] = setMessage(n, msg)]
  /\ next' = [next EXCEPT ![n] = 0]
  /\ node' = [node EXCEPT ![p] = n]
  /\ Args(p, sendRemainder(n))

\* send(T&&), the storage was empty: new MessageNode<T>(std::move(message))
TakeNew(p, m, msg) ==
  /\ head[Storage(m)] = 0
  /\ next' = (NewNode(m) :> 0) @@ next
  /\ message' = (NewNode(m) :> msg) @@ message
  /\ node' = [node EXCEPT ![p] = NewNode(m)]
  /\ NoArgs(p)
  /\ UNCHANGED head

\* push_multiple(front, back) on stack s: read the head, link back->next to it
LoadStep(p, s) ==
  /\ seen' = [seen EXCEPT ![p] = head[s]]
  /\ next' = push_link(back[p], head[s])
  /\ UNCHANGED <<head, message, freed, node, front, back>>

\* push_multiple(front, back) on stack s: the compare-and-swap
CasStep(p, s) ==
  /\ head' = push_cas(s, p, front[p])
  /\ seen' = [seen EXCEPT ![p] = 0]
  /\ IF push_cas_ok(s, p) THEN NoArgs(p) ELSE UNCHANGED <<front, back>>

\* lifo.push(node) on stack s: read the head, link node->next to it
PushLoadStep(p, s) ==
  /\ seen' = [seen EXCEPT ![p] = head[s]]
  /\ next' = push_link(node[p], head[s])
  /\ UNCHANGED <<head, message, freed, node, front, back>>

\* lifo.push(node) on stack s: the compare-and-swap
PushCasStep(p, s) ==
  /\ head' = push_cas(s, p, node[p])
  /\ seen' = [seen EXCEPT ![p] = 0]
  /\ node' = [node EXCEPT ![p] = IF push_cas_ok(s, p) THEN 0 ELSE node[p]]

Goto(p, l) == pc' = [pc EXCEPT ![p] = l]
Return(p, v) == ret' = [ret EXCEPT ![p] = v]

\* ------------------------------------------- SpecM: one Messenger, threads
Idle(t) == pc[t] = "idle"

\* bool send(T&& message): the storage is popped, or a node allocated
send(t) ==
  /\ Idle(t) /\ nsent < MaxMsgs
  /\ nsent' = nsent + 1
  /\ fate' = [fate EXCEPT ![nsent + 1] = "sending"]
  /\ arg' = [arg EXCEPT ![t] = nsent + 1]
  /\ \/ /\ TakeFromStorage(t, M, nsent + 1)
        /\ Return(t, "true")
        /\ Goto(t, IF sendRemainder(head[Storage(M)]) # 0 THEN "send_pm_load" ELSE "send_push_load")
     \/ /\ nalloc < MaxNodes
        /\ TakeNew(t, M, nsent + 1)
        /\ Return(t, "false")
        /\ Goto(t, "send_push_load")
  /\ UNCHANGED <<freed, seen, held, avars>>

\* send: storage.push_multiple(next, next->last()), read of the head
send_pm_load(t) ==
  /\ pc[t] = "send_pm_load"
  /\ LoadStep(t, Storage(M))
  /\ Goto(t, "send_pm_cas")
  /\ UNCHANGED <<held, arg, ret, nsent, fate, avars>>

\* send: storage.push_multiple(next, next->last()), compare-and-swap
send_pm_cas(t) ==
  /\ pc[t] = "send_pm_cas"
  /\ CasStep(t, Storage(M))
  /\ Goto(t, IF push_cas_ok(Storage(M), t) THEN "send_push_load" ELSE "send_pm_load")
  /\ UNCHANGED <<next, message, freed, node, held, arg, ret, nsent, fate, avars>>

\* send: lifo.push(node), read of the head
send_push_load(t) ==
  /\ pc[t] = "send_push_load"
  /\ PushLoadStep(t, Lifo(M))
  /\ Goto(t, "send_push_cas")
  /\ UNCHANGED <<held, arg, ret, nsent, fate, avars>>

\* send: lifo.push(node), compare-and-swap; on success send returns
send_push_cas(t) ==
  /\ pc[t] = "send_push_cas"
  /\ PushCasStep(t, Lifo(M))
  /\ Goto(t, IF push_cas_ok(Lifo(M), t) THEN "idle" ELSE "send_push_load")
  /\ fate' = IF push_cas_ok(Lifo(M), t) THEN [fate EXCEPT ![arg[t]] = "sent"] ELSE fate
  /\ arg' = [arg EXCEPT ![t] = IF push_cas_ok(Lifo(M), t) THEN 0 ELSE arg[t]]
  /\ UNCHANGED <<next, message, freed, front, back, held, ret, nsent, avars>>

\* a sendIfNodeAvailable that gives up whatever it popped
nodeAvailable_never(n) == FALSE

\* if (!node) of sendIfNodeAvailable, on the result of storage.pop_all()
nodeAvailable(n) == n # 0

\* bool sendIfNodeAvailable(T&& message): the storage is popped; false if it is empty
sendIfNodeAvailable(t) ==
  /\ Idle(t) /\ nsent < MaxMsgs
  /\ \/ /\ nodeAvailable(head[Storage(M)])
        /\ TakeFromStorage(t, M, nsent + 1)
        /\ nsent' = nsent + 1
        /\ fate' = [fate EXCEPT ![nsent + 1] = "sending"]
        /\ arg' = [arg EXCEPT ![t] = nsent + 1]
        /\ Return(t, "true")
        /\ Goto(t, IF sendRemainder(head[Storage(M)]) # 0 THEN "sina_pm_load" ELSE "sina_push_load")
     \/ /\ ~nodeAvailable(head[Storage(M)])
        /\ head' = pop_all(Storage(M))
        /\ Return(t, "false")
        /\ UNCHANGED <<next, message, node, front, back, pc, arg, nsent, fate>>
  /\ UNCHANGED <<freed, seen, held, avars>>

\* sendIfNodeAvailable: storage.push_multiple(next, next->last()), read of the head
sina_pm_load(t) ==
  /\ pc[t] = "sina_pm_load"
  /\ LoadStep(t, Storage(M))
  /\ Goto(t, "sina_pm_cas")
  /\ UNCHANGED <<held, arg, ret, nsent, fate, avars>>

\* sendIfNodeAvailable: storage.push_multiple(next, next->last()), compare-and-swap
sina_pm_cas(t) ==
  /\ pc[t] = "sina_pm_cas"
  /\ CasStep(t, Storage(M))
  /\ Goto(t, IF push_cas_ok(Storage(M), t) THEN "sina_push_load" ELSE "sina_pm_load")
  /\ UNCHANGED <<next, message, freed, node, held, arg, ret, nsent, fate, avars>>

\* sendIfNodeAvailable: lifo.push(node), read of the head
sina_push_load(t) ==
  /\ pc[t] = "sina_push_load"
  /\ PushLoadStep(t, Lifo(M))
  /\ Goto(t, "sina_push_cas")
  /\ UNCHANGED <<held, arg, ret, nsent, fate, avars>>

\* sendIfNodeAvailable: lifo.push(node), compare-and-swap; on success it returns true
sina_push_cas(t) ==
  /\ pc[t] = "sina_push_cas"
  /\ PushCasStep(t, Lifo(M))
  /\ Goto(t, IF push_cas_ok(Lifo(M), t) THEN "idle" ELSE "sina_push_load")
  /\ fate' = IF push_cas_ok(Lifo(M), t) THEN [fate EXCEPT ![arg[t]] = "sent"] ELSE fate
  /\ arg' = [arg EXCEPT ![t] = IF push_cas_ok(Lifo(M), t) THEN 0 ELSE arg[t]]
  /\ UNCHANGED <<next, message, freed, front, back, held, ret, nsent, avars>>

\* void send(MessageNode<T>* node): the caller fills a node it holds and sends it
sendNode(t) ==
  /\ Idle(t) /\ nsent < MaxMsgs
  /\ held[t] # 0 /\ next[held[t]] = 0
  /\ nsent' = nsent + 1
  /\ fate' = [fate EXCEPT ![nsent + 1] = "sending"]
  /\ arg' = [arg EXCEPT ![t] = nsent + 1]
  /\ message' = [message EXCEPT ![held[t]] = nsent + 1]
  /\ node' = [node EXCEPT ![t] = held[t]]
  /\ held' = [held EXCEPT ![t] = 0]
  /\ Return(t, "void")
  /\ Goto(t, "sn_push_load")
  /\ UNCHANGED <<head, next, freed, front, back, seen, avars>>

\* send(MessageNode<T>*): lifo.push(node), read of the head
sn_push_load(t) ==
  /\ pc[t] = "sn_push_load"
  /\ PushLoadStep(t, Lifo(M))
  /\ Goto(t, "sn_push_cas")
  /\ UNCHANGED <<held, arg, ret, nsent, fate, avars>>

\* send(MessageNode<T>*): lifo.push(node), compare-and-swap
sn_push_cas(t) ==
  /\ pc[t] = "sn_push_cas"
  /\ PushCasStep(t, Lifo(M))
  /\ Goto(t, IF push_cas_ok(Lifo(M), t) THEN "idle" ELSE "sn_push_load")
  /\ fate' = IF push_cas_ok(Lifo(M), t) THEN [fate EXCEPT ![arg[t]] = "sent"] ELSE fate
  /\ arg' = [arg EXCEPT ![t] = IF push_cas_ok(Lifo(M), t) THEN 0 ELSE arg[t]]
  /\ UNCHANGED <<next, message, freed, front, back, held, ret, nsent, avars>>

\* a receive that takes every popped chain for null
nothingReceived_always(h) == TRUE

\* if (!head) of receiveLastMessage and receiveLastNode, on the result of lifo.pop_all()
nothingReceived(h) == h = 0

\* std::optional<T> receiveLastMessage(): pop the lifo, take the head's message
receiveLastMessage(t) ==
  /\ Idle(t)
  /\ LET h == head[Lifo(M)] IN
     /\ head' = pop_all(Lifo(M))
     /\ IF nothingReceived(h)
        THEN /\ Return(t, "nullopt")
             /\ UNCHANGED <<pc, front, back, fate>>
        ELSE /\ Return(t, "message")
             /\ fate' = Settle(<<message[h]>>, Tail(Payloads(h)), "coalesced")
             /\ Args(t, h)
             /\ Goto(t, "rlm_pm_load")
  /\ UNCHANGED <<arg, next, message, freed, node, seen, held, nsent, avars>>

\* receiveLastMessage: storage.push_multiple(head, head->last()), read of the head
rlm_pm_load(t) ==
  /\ pc[t] = "rlm_pm_load"
  /\ LoadStep(t, Storage(M))
  /\ Goto(t, "rlm_pm_cas")
  /\ UNCHANGED <<held, arg, ret, nsent, fate, avars>>

\* receiveLastMessage: storage.push_multiple(head, head->last()), compare-and-swap
rlm_pm_cas(t) ==
  /\ pc[t] = "rlm_pm_cas"
  /\ CasStep(t, Storage(M))
  /\ Goto(t, IF push_cas_ok(Storage(M), t) THEN "idle" ELSE "rlm_pm_load")
  /\ UNCHANGED <<next, message, freed, node, held, arg, ret, nsent, fate, avars>>

\* MessageNode<T>* receiveLastNode(): pop the lifo, keep the head
receiveLastNode(t) ==
  /\ Idle(t) /\ held[t] = 0
  /\ LET h == head[Lifo(M)] IN
     /\ head' = pop_all(Lifo(M))
     /\ IF nothingReceived(h)
        THEN /\ Return(t, "nullptr")
             /\ UNCHANGED <<pc, node, held, front, back, fate>>
        ELSE /\ Return(t, "node")
             /\ fate' = Settle(<<message[h]>>, Tail(Payloads(h)), "coalesced")
             /\ IF next[h] # 0
                THEN /\ Args(t, receiveLastNodeRest(h))
                     /\ node' = [node EXCEPT ![t] = h]
                     /\ Goto(t, "rln_pm_load")
                     /\ UNCHANGED held
                ELSE /\ held' = [held EXCEPT ![t] = h]
                     /\ UNCHANGED <<pc, node, front, back>>
  /\ UNCHANGED <<arg, next, message, freed, seen, nsent, avars>>

\* receiveLastNode: storage.push_multiple(head->next(), head->last()), read of the head
rln_pm_load(t) ==
  /\ pc[t] = "rln_pm_load"
  /\ LoadStep(t, Storage(M))
  /\ Goto(t, "rln_pm_cas")
  /\ UNCHANGED <<held, arg, ret, nsent, fate, avars>>

\* receiveLastNode: the compare-and-swap, then head->next() = nullptr and return head
rln_pm_cas(t) ==
  /\ pc[t] = "rln_pm_cas"
  /\ CasStep(t, Storage(M))
  /\ IF push_cas_ok(Storage(M), t)
     THEN /\ next' = [next EXCEPT ![node[t]] = 0]
          /\ held' = [held EXCEPT ![t] = node[t]]
          /\ node' = [node EXCEPT ![t] = 0]
          /\ Goto(t, "idle")
     ELSE /\ Goto(t, "rln_pm_load")
          /\ UNCHANGED <<next, held, node>>
  /\ UNCHANGED <<message, freed, arg, ret, nsent, fate, avars>>

\* MessageNode<T>* receiveAllNodes(): the caller keeps the popped chain
receiveAllNodes(t) ==
  /\ Idle(t) /\ held[t] = 0
  /\ head' = pop_all(Lifo(M))
  /\ held' = [held EXCEPT ![t] = head[Lifo(M)]]
  /\ fate' = Settle(Payloads(head[Lifo(M)]), <<>>, "none")
  /\ Return(t, IF head[Lifo(M)] = 0 THEN "nullptr" ELSE "node")
  /\ UNCHANGED <<arg, next, message, freed, pc, node, front, back, seen, nsent, avars>>

\* void recycle(MessageNode<T>* stack), called with the chain the caller holds
recycle(t) ==
  /\ Idle(t) /\ held[t] # 0
  /\ Args(t, held[t])
  /\ held' = [held EXCEPT ![t] = 0]
  /\ Return(t, "void")
  /\ Goto(t, "rec_pm_load")
  /\ UNCHANGED <<arg, head, next, message, freed, node, seen, nsent, fate, avars>>

\* recycle: storage.push_multiple(stack, stack->last()), read of the head
rec_pm_load(t) ==
  /\ pc[t] = "rec_pm_load"
  /\ LoadStep(t, Storage(M))
  /\ Goto(t, "rec_pm_cas")
  /\ UNCHANGED <<held, arg, ret, nsent, fate, avars>>

\* recycle: storage.push_multiple(stack, stack->last()), compare-and-swap
rec_pm_cas(t) ==
  /\ pc[t] = "rec_pm_cas"
  /\ CasStep(t, Storage(M))
  /\ Goto(t, IF push_cas_ok(Storage(M), t) THEN "idle" ELSE "rec_pm_load")
  /\ UNCHANGED <<next, message, freed, node, held, arg, ret, nsent, fate, avars>>

\* the chain of k nodes built by the loop of allocateNodes, on the next k addresses
allocateNodes_links(m, k) ==
  [n \in NewNode(m)..(NewNode(m) + k - 1) |-> IF n = NewNode(m) + k - 1 THEN 0 ELSE n + 1]

\* void allocateNodes(int numNodesToAllocate): build the chain, then recycle(head)
allocateNodes(t, k) ==
  /\ Idle(t) /\ k >= 1 /\ nalloc + k <= MaxNodes
  /\ next' = allocateNodes_links(M, k) @@ next
  /\ message' = [n \in DOMAIN allocateNodes_links(M, k) |-> 0] @@ message
  /\ front' = [front EXCEPT ![t] = NewNode(M)]
  /\ back' = [back EXCEPT ![t] = NewNode(M) + k - 1]
  /\ Return(t, "void")
  /\ Goto(t, "rec_pm_load")
  /\ UNCHANGED <<arg, head, freed, node, seen, held, nsent, fate, avars>>

\* void discardAllMessages(): recycle(lifo.pop_all())
discardAllMessages(t) ==
  /\ Idle(t)
  /\ head' = pop_all(Lifo(M))
  /\ fate' = Settle(<<>>, Payloads(head[Lifo(M)]), "discarded")
  /\ Return(t, "void")
  /\ IF head[Lifo(M)] # 0
     THEN Args(t, head[Lifo(M)]) /\ Goto(t, "rec_pm_load")
     ELSE UNCHANGED <<front, back, pc>>
  /\ UNCHANGED <<arg, next, message, freed, node, seen, held, nsent, avars>>

\* void freeStorage(): freeMessageStack(storage.pop_all())
freeStorage(t) ==
  /\ Idle(t)
  /\ head' = pop_all(Storage(M))
  /\ freeMessageStack(head[Storage(M)])
  /\ Return(t, "void")
  /\ UNCHANGED <<arg, pc, node, front, back, seen, held, nsent, fate, avars>>

\* void discardAndFreeAllMessages(): freeMessageStack(lifo.pop_all())
discardAndFreeAllMessages(t) ==
  /\ Idle(t)
  /\ head' = pop_all(Lifo(M))
  /\ fate' = Settle(<<>>, Payloads(head[Lifo(M)]), "discarded")
  /\ freeMessageStack(head[Lifo(M)])
  /\ Return(t, "void")
  /\ UNCHANGED <<arg, pc, node, front, back, seen, held, nsent, avars>>

\* -------------------------------------------------------------- SpecM
Stacks == {Lifo(M), Storage(M)}
Procs == Thread

InitM ==
  /\ head = [s \in Stacks |-> 0]
  /\ next = <<>>
  /\ message = <<>>
  /\ freed = {}
  /\ pc = [p \in Procs |-> "idle"]
  /\ node = [p \in Procs |-> 0]
  /\ front = [p \in Procs |-> 0]
  /\ back = [p \in Procs |-> 0]
  /\ seen = [p \in Procs |-> 0]
  /\ held = [p \in Procs |-> 0]
  /\ arg = [p \in Procs |-> 0]
  /\ ret = [p \in Procs |-> "none"]
  /\ nsent = 0
  /\ fate = [m \in Msg |-> "unsent"]
  /\ producers = <<>> /\ instances = <<>> /\ objectSettings = <<>>
  /\ mutex = {} /\ object = <<>> /\ objVal = <<>> /\ objState = <<>>
  /\ widx = 0 /\ anyChange = FALSE /\ chg = <<>>
  /\ tickSubmitted = {} /\ builtNow = {} /\ lastSent = <<>>

NextM ==
  \E t \in Thread :
    \/ send(t) \/ send_pm_load(t) \/ send_pm_cas(t) \/ send_push_load(t) \/ send_push_cas(t)
    \/ sendIfNodeAvailable(t) \/ sina_pm_load(t) \/ sina_pm_cas(t)
    \/ sina_push_load(t) \/ sina_push_cas(t)
    \/ sendNode(t) \/ sn_push_load(t) \/ sn_push_cas(t)
    \/ receiveLastMessage(t) \/ rlm_pm_load(t) \/ rlm_pm_cas(t)
    \/ receiveLastNode(t) \/ rln_pm_load(t) \/ rln_pm_cas(t)
    \/ receiveAllNodes(t)
    \/ recycle(t) \/ rec_pm_load(t) \/ rec_pm_cas(t)
    \/ \E k \in 1..2 : allocateNodes(t, k)
    \/ discardAllMessages(t) \/ freeStorage(t) \/ discardAndFreeAllMessages(t)

SpecM == InitM /\ [][NextM]_vars

\* ------------------------------------------------- SpecM: who holds what
\* nodes a thread holds detached: its chain, its operation's node, the chain it is pushing
Held(p) ==
  Range(Chain(held[p])) \cup (IF node[p] = 0 THEN {} ELSE {node[p]})
    \cup Range(Path(front[p], back[p]))

HeldCount(p) ==
  Len(Chain(held[p])) + (IF node[p] = 0 THEN 0 ELSE 1) + Len(Path(front[p], back[p]))

Live(m) == Range(Chain(head[Lifo(m)]))
Free(m) == Range(Chain(head[Storage(m)]))

RECURSIVE Sum(_, _)
Sum(f, S) == IF S = {} THEN 0 ELSE LET x == CHOOSE y \in S : TRUE IN f[x] + Sum(f, S \ {x})

\* ------------------------------------------------------ SpecA: AsyncObject
\* The threads: Producer j's owner, Instance i's owner, and the worker of the AsyncThread
PP(j) == <<"p", j>>
CP(i) == <<"c", i>>
W == <<"w", 0>>
ProducerIds == 1..NumProducers
InstanceIds == 1..NumInstances

\* The Messengers: Producer::messenger, Instance::toInstance, Instance::fromInstance
Prod(j) == <<"prod", j>>
To(i) == <<"to", i>>
From(i) == <<"from", i>>

\* the changes, numbered Producer by Producer; a Producer submits its own in increasing order
Change == 1..(NumProducers * MaxChanges)
ChangeOwner(c) == ((c - 1) \div MaxChanges) + 1
ChangesOf(j) == {c \in Change : ChangeOwner(c) = j}
Submitted == {c \in Change : chg[c] = "submitted"}

\* the next change Producer j has to submit (0: none left)
NextChange(j) ==
  IF \E c \in ChangesOf(j) : chg[c] = "unsent"
  THEN CHOOSE c \in ChangesOf(j) : chg[c] = "unsent" /\ \A b \in ChangesOf(j) : b < c => chg[b] # "unsent"
  ELSE 0

nobj == Len(objVal)

\* std::make_unique<Object>(objectSettings)
NewObject == nobj + 1
make_unique ==
  /\ objVal' = Append(objVal, objectSettings)
  /\ objState' = Append(objState, "alive")

\* ~unique_ptr<Object> of every payload of a sequence of payloads
destroyed(payloads) ==
  [o \in DOMAIN objState |->
     IF Occurrences(payloads, o) = 0 THEN objState[o]
     ELSE IF Occurrences(payloads, o) = 1 /\ objState[o] = "alive" THEN "destroyed"
     ELSE "destroyed twice"]

\* std::lock_guard<std::mutex>(mutex) of createProducer
createProducer_canLock == mutex = {}

\* std::lock_guard<std::mutex>(mutex) of createInstance
createInstance_canLock == mutex = {}

\* std::lock_guard<std::mutex>(mutex) of timerCallback
timerCallback_canLock == mutex = {}

munused == <<held, nsent, fate>>
tickvars == <<widx, anyChange, tickSubmitted, builtNow, lastSent>>

\* createProducer: the lock_guard. The Producers are numbered in the order of
\* their creation.
createProducer_lock(j) ==
  /\ pc[PP(j)] = "start" /\ Len(producers) = j - 1
  /\ createProducer_canLock
  /\ mutex' = mutex \cup {PP(j)}
  /\ Goto(PP(j), "cp_locked")
  /\ UNCHANGED <<head, next, message, freed, node, front, back, seen, arg, ret, munused>>
  /\ UNCHANGED <<producers, instances, objectSettings, object, objVal, objState, chg, tickvars>>

\* createProducer: producers.push_back(producer.get()), return
createProducer(j) ==
  /\ pc[PP(j)] = "cp_locked"
  /\ producers' = Append(producers, j)
  /\ mutex' = mutex \ {PP(j)}
  /\ Goto(PP(j), "idle")
  /\ UNCHANGED <<head, next, message, freed, node, front, back, seen, arg, ret, munused>>
  /\ UNCHANGED <<instances, objectSettings, object, objVal, objState, chg, tickvars>>

\* createInstance: the lock_guard. The Instances are numbered in the order of
\* their creation.
createInstance_lock(i) ==
  /\ pc[CP(i)] = "start" /\ Len(instances) = i - 1
  /\ createInstance_canLock
  /\ mutex' = mutex \cup {CP(i)}
  /\ Goto(CP(i), "ci_locked")
  /\ UNCHANGED <<head, next, message, freed, node, front, back, seen, arg, ret, munused>>
  /\ UNCHANGED <<producers, instances, objectSettings, object, objVal, objState, chg, tickvars>>

\* createInstance: new Instance(objectSettings, ...), instances.push_back, return
createInstance(i) ==
  /\ pc[CP(i)] = "ci_locked"
  /\ make_unique
  /\ object' = [object EXCEPT ![i] = NewObject]
  /\ instances' = Append(instances, i)
  /\ mutex' = mutex \ {CP(i)}
  /\ Goto(CP(i), "idle")
  /\ UNCHANGED <<head, next, message, freed, node, front, back, seen, arg, ret, munused>>
  /\ UNCHANGED <<producers, objectSettings, chg, tickvars>>

\* Producer::allocateNodes, called before the first submission:
\* messenger.allocateNodes(MaxChanges) builds the chain, recycle(head) follows
producerAllocateNodes(j) ==
  /\ pc[PP(j)] = "idle"
  /\ NewNode(Prod(j)) = Arena(Prod(j)) * ArenaSize + 1
  /\ \A c \in ChangesOf(j) : chg[c] = "unsent"
  /\ next' = allocateNodes_links(Prod(j), MaxChanges) @@ next
  /\ message' = [n \in DOMAIN allocateNodes_links(Prod(j), MaxChanges) |-> 0] @@ message
  /\ front' = [front EXCEPT ![PP(j)] = NewNode(Prod(j))]
  /\ back' = [back EXCEPT ![PP(j)] = NewNode(Prod(j)) + MaxChanges - 1]
  /\ Goto(PP(j), "alloc_pm_load")
  /\ UNCHANGED <<head, freed, node, seen, arg, ret, munused, avars>>

\* Producer::allocateNodes: recycle(head), read of the head of the storage
alloc_pm_load(j) ==
  /\ pc[PP(j)] = "alloc_pm_load"
  /\ LoadStep(PP(j), Storage(Prod(j)))
  /\ Goto(PP(j), "alloc_pm_cas")
  /\ UNCHANGED <<arg, ret, munused, avars>>

\* Producer::allocateNodes: recycle(head), compare-and-swap
alloc_pm_cas(j) ==
  /\ pc[PP(j)] = "alloc_pm_cas"
  /\ CasStep(PP(j), Storage(Prod(j)))
  /\ Goto(PP(j), IF push_cas_ok(Storage(Prod(j)), PP(j)) THEN "idle" ELSE "alloc_pm_load")
  /\ UNCHANGED <<next, message, freed, node, arg, ret, munused, avars>>

\* Producer::submitChange: messenger.send(std::move(change)), up to the detached node
submitChange(j) ==
  /\ pc[PP(j)] = "idle" /\ NextChange(j) # 0
  /\ chg' = [chg EXCEPT ![NextChange(j)] = "sending"]
  /\ arg' = [arg EXCEPT ![PP(j)] = NextChange(j)]
  /\ \/ /\ TakeFromStorage(PP(j), Prod(j), NextChange(j))
        /\ Goto(PP(j), IF sendRemainder(head[Storage(Prod(j))]) # 0
                       THEN "sub_pm_load" ELSE "sub_push_load")
     \/ /\ TakeNew(PP(j), Prod(j), NextChange(j))
        /\ Goto(PP(j), "sub_push_load")
  /\ UNCHANGED <<freed, seen, ret, munused>>
  /\ UNCHANGED <<producers, instances, objectSettings, mutex, object, objVal, objState, tickvars>>

\* Producer::submitChangeIfNodeAvailable: messenger.sendIfNodeAvailable(std::move(change))
submitChangeIfNodeAvailable(j) ==
  /\ pc[PP(j)] = "idle" /\ NextChange(j) # 0
  /\ \/ /\ TakeFromStorage(PP(j), Prod(j), NextChange(j))
        /\ chg' = [chg EXCEPT ![NextChange(j)] = "sending"]
        /\ arg' = [arg EXCEPT ![PP(j)] = NextChange(j)]
        /\ Goto(PP(j), IF sendRemainder(head[Storage(Prod(j))]) # 0
                       THEN "sub_pm_load" ELSE "sub_push_load")
     \/ /\ head[Storage(Prod(j))] = 0
        /\ chg' = [chg EXCEPT ![NextChange(j)] = "rejected"]
        /\ UNCHANGED <<head, next, message, node, front, back, pc, arg>>
  /\ UNCHANGED <<freed, seen, ret, munused>>
  /\ UNCHANGED <<producers, instances, objectSettings, mutex, object, objVal, objState, tickvars>>

\* send / sendIfNodeAvailable of a Producer: storage.push_multiple, read of the head
sub_pm_load(j) ==
  /\ pc[PP(j)] = "sub_pm_load"
  /\ LoadStep(PP(j), Storage(Prod(j)))
  /\ Goto(PP(j), "sub_pm_cas")
  /\ UNCHANGED <<arg, ret, munused, avars>>

\* send / sendIfNodeAvailable of a Producer: storage.push_multiple, compare-and-swap
sub_pm_cas(j) ==
  /\ pc[PP(j)] = "sub_pm_cas"
  /\ CasStep(PP(j), Storage(Prod(j)))
  /\ Goto(PP(j), IF push_cas_ok(Storage(Prod(j)), PP(j)) THEN "sub_push_load" ELSE "sub_pm_load")
  /\ UNCHANGED <<next, message, freed, node, arg, ret, munused, avars>>

\* send / sendIfNodeAvailable of a Producer: lifo.push(node), read of the head
sub_push_load(j) ==
  /\ pc[PP(j)] = "sub_push_load"
  /\ PushLoadStep(PP(j), Lifo(Prod(j)))
  /\ Goto(PP(j), "sub_push_cas")
  /\ UNCHANGED <<arg, ret, munused, avars>>

\* send / sendIfNodeAvailable of a Producer: lifo.push(node), compare-and-swap; the
\* submission returns on success
sub_push_cas(j) ==
  /\ pc[PP(j)] = "sub_push_cas"
  /\ PushCasStep(PP(j), Lifo(Prod(j)))
  /\ Goto(PP(j), IF push_cas_ok(Lifo(Prod(j)), PP(j)) THEN "idle" ELSE "sub_push_load")
  /\ chg' = IF push_cas_ok(Lifo(Prod(j)), PP(j))
            THEN [chg EXCEPT ![arg[PP(j)]] = "submitted"] ELSE chg
  /\ arg' = [arg EXCEPT ![PP(j)] = IF push_cas_ok(Lifo(Prod(j)), PP(j)) THEN 0 ELSE arg[PP(j)]]
  /\ UNCHANGED <<next, message, freed, front, back, ret, munused>>
  /\ UNCHANGED <<producers, instances, objectSettings, mutex, object, objVal, objState, tickvars>>

\* an update that copies the pointer and leaves the new Object in the node as well
swapIntoNode_aliased(i, h) == message[h]

\* swap(object, newObject) of Instance::update: what is left in the node
swapIntoNode(i, h) == object[i]

\* Instance::update: toInstance.receiveLastNode() and the swap
update(i) ==
  /\ pc[CP(i)] = "idle"
  /\ LET h == head[Lifo(To(i))]
         rest == IF h = 0 THEN 0 ELSE receiveLastNodeRest(h)
     IN
     IF h = 0
     THEN /\ head' = pop_all(Lifo(To(i)))
          /\ Return(CP(i), "false")
          /\ UNCHANGED <<next, message, node, pc, object>>
     ELSE \* storage.push_multiple(head->next(), head->last()) is taken as one step
          /\ head' = IF rest = 0 THEN pop_all(Lifo(To(i)))
                     ELSE [head EXCEPT ![Lifo(To(i))] = 0, ![Storage(To(i))] = rest]
          /\ next' = IF rest = 0 THEN next
                     ELSE [n \in Allocated |->
                             IF n = h THEN 0
                             ELSE IF n = last(h) THEN head[Storage(To(i))] ELSE next[n]]
          /\ message' = [message EXCEPT ![h] = swapIntoNode(i, h)]
          /\ object' = [object EXCEPT ![i] = message[h]]
          /\ node' = [node EXCEPT ![CP(i)] = h]
          /\ Return(CP(i), "true")
          /\ Goto(CP(i), "upd_push_load")
  /\ UNCHANGED <<freed, front, back, seen, arg, munused>>
  /\ UNCHANGED <<producers, instances, objectSettings, mutex, objVal, objState, chg, tickvars>>

\* Instance::update: fromInstance.send(messageNode), read of the head
upd_push_load(i) ==
  /\ pc[CP(i)] = "upd_push_load"
  /\ PushLoadStep(CP(i), Lifo(From(i)))
  /\ Goto(CP(i), "upd_push_cas")
  /\ UNCHANGED <<arg, ret, munused, avars>>

\* Instance::update: fromInstance.send(messageNode), compare-and-swap; return true
upd_push_cas(i) ==
  /\ pc[CP(i)] = "upd_push_cas"
  /\ PushCasStep(CP(i), Lifo(From(i)))
  /\ Goto(CP(i), IF push_cas_ok(Lifo(From(i)), CP(i)) THEN "idle" ELSE "upd_push_load")
  /\ UNCHANGED <<next, message, freed, front, back, arg, ret, munused, avars>>

\* handleMessageStack, first loop: head->next()->prev() = head along the chain
prevLinks(h) ==
  [n \in Range(Chain(h)) |->
     IF n = h THEN 0 ELSE CHOOSE b \in Range(Chain(h)) : next[b] = n]

RECURSIVE walkPrev(_, _, _)
walkPrev(n, prev, fuel) ==
  IF n = 0 \/ fuel = 0 THEN <<>> ELSE <<message[n]>> \o walkPrev(prev[n], prev, fuel - 1)

\* a second loop that stops at the node without prev(), the head of the popped chain
handleMessageStack_skipHead(h) ==
  IF h = 0 THEN <<>>
  ELSE LET all == walkPrev(last(h), prevLinks(h), nalloc + 1) IN SubSeq(all, 1, Len(all) - 1)

\* an action applied while walking next() from the head
handleMessageStack_lifo(h) == Payloads(h)

\* handleMessageStack: the messages in the order the action is called on them
handleMessageStack(h) ==
  IF h = 0 THEN <<>> ELSE walkPrev(last(h), prevLinks(h), nalloc + 1)

\* how timerCallback continues: the loop sending to the instances
AtSend(k, any) ==
  IF any /\ k <= Len(instances) THEN <<"tc_discard", k>> ELSE <<"tc_unlock", 0>>

\* how timerCallback continues: the loop over the producers
AtHandle(k, any) ==
  IF k <= Len(producers) THEN <<"tc_handle", k>> ELSE AtSend(1, any)

\* how timerCallback continues: the loop freeing the fromInstance messengers
AtFrom(k) ==
  IF k <= Len(instances) THEN <<"tc_from", k>> ELSE AtHandle(1, FALSE)

Continue(x) ==
  /\ pc' = [pc EXCEPT ![W] = x[1]]
  /\ widx' = x[2]

\* timerCallback: the lock_guard
timerCallback_lock ==
  /\ pc[W] = "idle"
  /\ timerCallback_canLock
  /\ mutex' = mutex \cup {W}
  /\ anyChange' = FALSE
  /\ tickSubmitted' = Submitted
  /\ builtNow' = {}
  /\ Continue(AtFrom(1))
  /\ UNCHANGED <<head, next, message, freed, node, front, back, seen, arg, ret, munused>>
  /\ UNCHANGED <<producers, instances, objectSettings, object, objVal, objState, chg, lastSent>>

\* timerCallback: instance->fromInstance.discardAndFreeAllMessages()
tc_from ==
  /\ pc[W] = "tc_from"
  /\ LET s == Lifo(From(instances[widx])) IN
     /\ head' = pop_all(s)
     /\ freeMessageStack(head[s])
     /\ objState' = destroyed(Payloads(head[s]))
  /\ Continue(AtFrom(widx + 1))
  /\ UNCHANGED <<node, front, back, seen, arg, ret, munused>>
  /\ UNCHANGED <<producers, instances, objectSettings, mutex, object, objVal, anyChange, chg,
                 tickSubmitted, builtNow, lastSent>>

\* timerCallback: producer->handleChanges(objectSettings), that is
\* receiveAndHandleMessageStack up to the call of recycle
tc_handle ==
  /\ pc[W] = "tc_handle"
  /\ LET s == Lifo(Prod(producers[widx]))
         messages == head[s]
     IN
     /\ head' = pop_all(s)
     /\ objectSettings' = objectSettings \o handleMessageStack(messages)
     /\ anyChange' = (anyChange \/ count(messages) > 0)
     /\ IF messages = 0
        THEN \* messages->count() on nullptr returned 0; recycle(nullptr) does nothing
             /\ Continue(AtHandle(widx + 1, anyChange))
             /\ UNCHANGED <<front, back>>
        ELSE /\ Args(W, messages)
             /\ Goto(W, "tc_rec_load")
             /\ UNCHANGED widx
  /\ UNCHANGED <<next, message, freed, node, seen, arg, ret, munused>>
  /\ UNCHANGED <<producers, instances, mutex, object, objVal, objState, chg,
                 tickSubmitted, builtNow, lastSent>>

\* receiveAndHandleMessageStack: messages->count() with messages == nullptr is a
\* member call on a null pointer; the build may also fault there, which ends
\* the process and every thread of it
tc_handle_null ==
  /\ pc[W] = "tc_handle"
  /\ head[Lifo(Prod(producers[widx]))] = 0
  /\ pc' = [p \in DOMAIN pc |-> "crashed"]
  /\ UNCHANGED <<head, next, message, freed, node, front, back, seen, arg, ret, munused, avars>>

\* receiveAndHandleMessageStack: messenger.recycle(messages), read of the head
tc_rec_load ==
  /\ pc[W] = "tc_rec_load"
  /\ LoadStep(W, Storage(Prod(producers[widx])))
  /\ Goto(W, "tc_rec_cas")
  /\ UNCHANGED <<arg, ret, munused, avars>>

\* receiveAndHandleMessageStack: messenger.recycle(messages), compare-and-swap
tc_rec_cas ==
  /\ pc[W] = "tc_rec_cas"
  /\ CasStep(W, Storage(Prod(producers[widx])))
  /\ IF push_cas_ok(Storage(Prod(producers[widx])), W)
     THEN Continue(AtHandle(widx + 1, anyChange))
     ELSE Goto(W, "tc_rec_load") /\ UNCHANGED widx
  /\ UNCHANGED <<next, message, freed, node, arg, ret, munused>>
  /\ UNCHANGED <<producers, instances, objectSettings, mutex, object, objVal, objState,
                 anyChange, chg, tickSubmitted, builtNow, lastSent>>

\* a tick that sends without discarding what the instance has not taken yet
toInstanceDiscarded_none(i) == 0

\* instance->toInstance.discardAndFreeAllMessages(): the chain it pops
toInstanceDiscarded(i) == head[Lifo(To(i))]

\* timerCallback: instance->toInstance.discardAndFreeAllMessages()
tc_discard ==
  /\ pc[W] = "tc_discard"
  /\ LET i == instances[widx]
         h == toInstanceDiscarded(i)
     IN
     /\ head' = IF h = 0 THEN head ELSE pop_all(Lifo(To(i)))
     /\ freeMessageStack(h)
     /\ objState' = destroyed(Payloads(h))
  /\ Goto(W, "tc_send")
  /\ UNCHANGED <<node, front, back, seen, arg, ret, munused>>
  /\ UNCHANGED <<producers, instances, objectSettings, mutex, object, objVal, tickvars, chg>>

\* timerCallback: instance->toInstance.send(std::make_unique<Object>(objectSettings)),
\* up to the detached node
tc_send ==
  /\ pc[W] = "tc_send"
  /\ LET i == instances[widx]
         n == head[Storage(To(i))]
     IN
     /\ objVal' = Append(objVal, objectSettings)
     /\ builtNow' = builtNow \cup {NewObject}
     /\ IF n = 0
        THEN /\ TakeNew(W, To(i), NewObject)
             /\ objState' = Append(objState, "alive")
        ELSE \* a node of the storage is reused: node->set destroys the Object it held;
             \* storage.push_multiple(next, next->last()) is taken as one step
             /\ head' = [head EXCEPT ![Storage(To(i))] = sendRemainder(n)]
             /\ next' = [next EXCEPT ![n] = 0]
             /\ message' = [message EXCEPT ![n] = setMessage(n, NewObject)]
             /\ objState' = Append(destroyed(<<message[n]>>), "alive")
             /\ node' = [node EXCEPT ![W] = n]
             /\ NoArgs(W)
  /\ Goto(W, "tc_push_load")
  /\ UNCHANGED <<freed, seen, arg, ret, munused>>
  /\ UNCHANGED <<producers, instances, objectSettings, mutex, object, widx, anyChange, chg,
                 tickSubmitted, lastSent>>

\* timerCallback: toInstance.send, lifo.push(node), read of the head
tc_push_load ==
  /\ pc[W] = "tc_push_load"
  /\ PushLoadStep(W, Lifo(To(instances[widx])))
  /\ Goto(W, "tc_push_cas")
  /\ UNCHANGED <<arg, ret, munused, avars>>

\* timerCallback: toInstance.send, lifo.push(node), compare-and-swap
tc_push_cas ==
  /\ pc[W] = "tc_push_cas"
  /\ PushCasStep(W, Lifo(To(instances[widx])))
  /\ IF push_cas_ok(Lifo(To(instances[widx])), W)
     THEN /\ Continue(AtSend(widx + 1, anyChange))
          /\ lastSent' = [lastSent EXCEPT ![instances[widx]] = message[node[W]]]
     ELSE /\ Goto(W, "tc_push_load")
          /\ UNCHANGED <<widx, lastSent>>
  /\ UNCHANGED <<next, message, freed, front, back, arg, ret, munused>>
  /\ UNCHANGED <<producers, instances, objectSettings, mutex, object, objVal, objState,
                 anyChange, chg, tickSubmitted, builtNow>>

\* timerCallback: return, the lock_guard releases the mutex
tc_unlock ==
  /\ pc[W] = "tc_unlock"
  /\ mutex' = mutex \ {W}
  /\ Goto(W, "idle")
  /\ anyChange' = FALSE /\ tickSubmitted' = {} /\ builtNow' = {}
  /\ UNCHANGED <<head, next, message, freed, node, front, back, seen, arg, ret, munused>>
  /\ UNCHANGED <<producers, instances, objectSettings, object, objVal, objState, chg,
                 widx, lastSent>>

\* -------------------------------------------------------------- SpecA
AStacks ==
  UNION {{Lifo(Prod(j)), Storage(Prod(j))} : j \in ProducerIds}
  \cup UNION {{Lifo(To(i)), Storage(To(i)), Lifo(From(i)), Storage(From(i))} : i \in InstanceIds}

AProcs == {PP(j) : j \in ProducerIds} \cup {CP(i) : i \in InstanceIds} \cup {W}

\* AsyncObject::AsyncObject: no Producer, no Instance; the threads procs exist
InitAsync(procs) ==
  /\ head = [s \in AStacks |-> 0]
  /\ next = <<>>
  /\ message = <<>>
  /\ freed = {}
  /\ pc = [p \in procs |-> IF p = W THEN "idle" ELSE "start"]
  /\ node = [p \in procs |-> 0]
  /\ front = [p \in procs |-> 0]
  /\ back = [p \in procs |-> 0]
  /\ seen = [p \in procs |-> 0]
  /\ held = [p \in procs |-> 0]
  /\ arg = [p \in procs |-> 0]
  /\ ret = [p \in procs |-> "none"]
  /\ nsent = 0
  /\ fate = <<>>
  /\ producers = <<>> /\ instances = <<>> /\ objectSettings = <<>>
  /\ mutex = {}
  /\ object = [i \in InstanceIds |-> 0]
  /\ objVal = <<>> /\ objState = <<>>
  /\ widx = 0 /\ anyChange = FALSE
  /\ chg = [c \in Change |-> "unsent"]
  /\ tickSubmitted = {} /\ builtNow = {}
  /\ lastSent = [i \in InstanceIds |-> 0]

InitA == InitAsync(AProcs)

NextA ==
  \/ \E j \in ProducerIds :
       \/ createProducer_lock(j) \/ createProducer(j)
       \/ producerAllocateNodes(j) \/ alloc_pm_load(j) \/ alloc_pm_cas(j)
       \/ submitChange(j) \/ submitChangeIfNodeAvailable(j)
       \/ sub_pm_load(j) \/ sub_pm_cas(j) \/ sub_push_load(j) \/ sub_push_cas(j)
  \/ \E i \in InstanceIds :
       \/ createInstance_lock(i) \/ createInstance(i)
       \/ update(i) \/ upd_push_load(i) \/ upd_push_cas(i)
  \/ timerCallback_lock \/ tc_from \/ tc_handle \/ tc_handle_null
  \/ tc_rec_load \/ tc_rec_cas
  \/ tc_discard \/ tc_send \/ tc_push_load \/ tc_push_cas \/ tc_unlock

SpecA == InitA /\ [][NextA]_vars

\* -------------------------------------------------------------- SpecB
\* The revision of the class kept in lockfree/Async.hpp (class Async): its
\* timerCallback takes no lock of the object. The thread calls it under the
\* mutex of the AsyncThread, which createInstance and createProducer do not
\* take; they lock the mutex of the Async object only.

InstanceLoop == {"tc_from", "tc_discard", "tc_send", "tc_push_load", "tc_push_cas"}
ProducerLoop == {"tc_handle", "tc_rec_load", "tc_rec_cas"}
TickRunning == pc[W] \in InstanceLoop \cup ProducerLoop \cup {"tc_unlock"}

\* Async::timerCallback of that revision, entry: nothing is locked
timerCallback_begin ==
  /\ pc[W] = "idle"
  /\ anyChange' = FALSE
  /\ tickSubmitted' = Submitted
  /\ builtNow' = {}
  /\ Continue(AtFrom(1))
  /\ UNCHANGED <<head, next, message, freed, node, front, back, seen, arg, ret, munused>>
  /\ UNCHANGED <<producers, instances, objectSettings, mutex, object, objVal, objState, chg,
                 lastSent>>

\* Async::timerCallback of that revision, return
timerCallback_end ==
  /\ pc[W] = "tc_unlock"
  /\ Goto(W, "idle")
  /\ anyChange' = FALSE /\ tickSubmitted' = {} /\ builtNow' = {}
  /\ UNCHANGED <<head, next, message, freed, node, front, back, seen, arg, ret, munused>>
  /\ UNCHANGED <<producers, instances, objectSettings, mutex, object, objVal, objState, chg,
                 widx, lastSent>>

\* Async::createInstance of that revision while a tick runs: instances.push_back
\* and the read of objectSettings race with the loops of timerCallback. Besides
\* completing as if alone (createInstance), the build may fault.
createInstance_raced(i) ==
  /\ pc[CP(i)] = "ci_locked"
  /\ TickRunning
  /\ pc' = [p \in DOMAIN pc |-> "crashed"]
  /\ UNCHANGED <<head, next, message, freed, node, front, back, seen, arg, ret, munused, avars>>

NextB ==
  \/ \E j \in ProducerIds :
       \/ createProducer_lock(j) \/ createProducer(j)
       \/ producerAllocateNodes(j) \/ alloc_pm_load(j) \/ alloc_pm_cas(j)
       \/ submitChange(j) \/ submitChangeIfNodeAvailable(j)
       \/ sub_pm_load(j) \/ sub_pm_cas(j) \/ sub_push_load(j) \/ sub_push_cas(j)
  \/ \E i \in InstanceIds :
       \/ createInstance_lock(i) \/ createInstance(i) \/ createInstance_raced(i)
       \/ update(i) \/ upd_push_load(i) \/ upd_push_cas(i)
  \/ timerCallback_begin \/ tc_from \/ tc_handle \/ tc_handle_null
  \/ tc_rec_load \/ tc_rec_cas
  \/ tc_discard \/ tc_send \/ tc_push_load \/ tc_push_cas \/ timerCallback_end

SpecB == InitA /\ [][NextB]_vars

\* -------------------------------------------------------------- SpecD
\* The AsyncObject with the loop of its AsyncThread, stop(), and the
\* destruction of Producers and Instances.

\* the thread that calls AsyncThread::stop
S == <<"s", 0>>

\* stopTimerFlag: set by stop(), never cleared as start() is not called again
stopTimerFlag == pc[S] # "start"

\* timerCallback returns into the loop of AsyncThread::start
timerCallback_return ==
  /\ pc[W] = "tc_unlock"
  /\ mutex' = mutex \ {W}
  /\ Goto(W, "check_stop")
  /\ anyChange' = FALSE /\ tickSubmitted' = {} /\ builtNow' = {}
  /\ UNCHANGED <<head, next, message, freed, node, front, back, seen, arg, ret, munused>>
  /\ UNCHANGED <<producers, instances, objectSettings, object, objVal, objState, chg,
                 widx, lastSent>>

\* AsyncThread::start, the loop: if (stopTimerFlag) return; after the callbacks
loop_check_stop ==
  /\ pc[W] = "check_stop"
  /\ Goto(W, IF stopTimerFlag THEN "stopped" ELSE "sleeping")
  /\ UNCHANGED <<head, next, message, freed, node, front, back, seen, arg, ret, munused, avars>>

\* AsyncThread::start, the loop: sleep_for, then if (stopTimerFlag) return
loop_sleep ==
  /\ pc[W] = "sleeping"
  /\ Goto(W, IF stopTimerFlag THEN "stopped" ELSE "idle")
  /\ UNCHANGED <<head, next, message, freed, node, front, back, seen, arg, ret, munused, avars>>

\* AsyncThread::stop: stopTimerFlag.store(true)
stop ==
  /\ pc[S] = "start"
  /\ Goto(S, "joining")
  /\ UNCHANGED <<head, next, message, freed, node, front, back, seen, arg, ret, munused, avars>>

\* AsyncThread::stop: timer.join() returns once the loop has returned
stop_join ==
  /\ pc[S] = "joining" /\ pc[W] = "stopped"
  /\ Goto(S, "joined")
  /\ UNCHANGED <<head, next, message, freed, node, front, back, seen, arg, ret, munused, avars>>

Without(seq, x) == SelectSeq(seq, LAMBDA y : y # x)

\* delete of every node of the chains hs, and of the Objects the nodes hold
FreeChains(hs) ==
  LET X == UNION {Range(Chain(h)) : h \in hs} IN
  /\ freed' = freed \cup X
  /\ next' = [n \in Allocated |-> IF n \in X THEN 0 ELSE next[n]]
  /\ message' = [n \in Allocated |-> IF n \in X THEN 0 ELSE message[n]]

\* ~Producer: async->removeProducer(this), the lock_guard
removeProducer_lock(j) ==
  /\ pc[PP(j)] = "idle"
  /\ mutex = {}
  /\ mutex' = mutex \cup {PP(j)}
  /\ Goto(PP(j), "rp_locked")
  /\ UNCHANGED <<head, next, message, freed, node, front, back, seen, arg, ret, munused>>
  /\ UNCHANGED <<producers, instances, objectSettings, object, objVal, objState, chg, tickvars>>

\* removeProducer: removeAddressFromStorage(producer, producers), return
removeProducer(j) ==
  /\ pc[PP(j)] = "rp_locked"
  /\ producers' = Without(producers, j)
  /\ mutex' = mutex \ {PP(j)}
  /\ Goto(PP(j), "rp_done")
  /\ UNCHANGED <<head, next, message, freed, node, front, back, seen, arg, ret, munused>>
  /\ UNCHANGED <<instances, objectSettings, object, objVal, objState, chg, tickvars>>

\* ~Producer, the members: ~Messenger frees the lifo and the storage
destroyProducer(j) ==
  /\ pc[PP(j)] = "rp_done"
  /\ FreeChains({head[Lifo(Prod(j))], head[Storage(Prod(j))]})
  /\ head' = [head EXCEPT ![Lifo(Prod(j))] = 0, ![Storage(Prod(j))] = 0]
  /\ Goto(PP(j), "gone")
  /\ UNCHANGED <<node, front, back, seen, arg, ret, munused, avars>>

\* ~Instance: async->removeInstance(this), the lock_guard
removeInstance_lock(i) ==
  /\ pc[CP(i)] = "idle"
  /\ mutex = {}
  /\ mutex' = mutex \cup {CP(i)}
  /\ Goto(CP(i), "ri_locked")
  /\ UNCHANGED <<head, next, message, freed, node, front, back, seen, arg, ret, munused>>
  /\ UNCHANGED <<producers, instances, objectSettings, object, objVal, objState, chg, tickvars>>

\* removeInstance: removeAddressFromStorage(instance, instances), return
removeInstance(i) ==
  /\ pc[CP(i)] = "ri_locked"
  /\ instances' = Without(instances, i)
  /\ mutex' = mutex \ {CP(i)}
  /\ Goto(CP(i), "ri_done")
  /\ UNCHANGED <<head, next, message, freed, node, front, back, seen, arg, ret, munused>>
  /\ UNCHANGED <<producers, objectSettings, object, objVal, objState, chg, tickvars>>

InstanceChains(i) ==
  {head[Lifo(To(i))], head[Storage(To(i))], head[Lifo(From(i))], head[Storage(From(i))]}

\* ~Instance, the members: ~Messenger of fromInstance and of toInstance, ~unique_ptr
\* of object
destroyInstance(i) ==
  /\ pc[CP(i)] = "ri_done"
  /\ FreeChains(InstanceChains(i))
  /\ head' = [s \in DOMAIN head |->
               IF s \in {Lifo(To(i)), Storage(To(i)), Lifo(From(i)), Storage(From(i))}
               THEN 0 ELSE head[s]]
  /\ objState' = destroyed(<<object[i]>>
                           \o Payloads(head[Lifo(To(i))]) \o Payloads(head[Storage(To(i))])
                           \o Payloads(head[Lifo(From(i))]) \o Payloads(head[Storage(From(i))]))
  /\ object' = [object EXCEPT ![i] = 0]
  /\ Goto(CP(i), "gone")
  /\ UNCHANGED <<node, front, back, seen, arg, ret, munused>>
  /\ UNCHANGED <<producers, instances, objectSettings, mutex, objVal, chg, tickvars>>

InitD == InitAsync(AProcs \cup {S})

\* SpecD has one Producer, the first
FirstProducer == CHOOSE j \in ProducerIds : \A k \in ProducerIds : j <= k

NextD ==
  \/ \E j \in {FirstProducer} :
       \/ createProducer_lock(j) \/ createProducer(j)
       \/ submitChange(j) \/ sub_push_load(j) \/ sub_push_cas(j)
       \/ removeProducer_lock(j) \/ removeProducer(j) \/ destroyProducer(j)
  \/ \E i \in InstanceIds :
       \/ createInstance_lock(i) \/ createInstance(i)
       \/ update(i) \/ upd_push_load(i) \/ upd_push_cas(i)
       \/ removeInstance_lock(i) \/ removeInstance(i) \/ destroyInstance(i)
  \/ timerCallback_lock \/ tc_from \/ tc_handle \/ tc_handle_null
  \/ tc_rec_load \/ tc_rec_cas
  \/ tc_discard \/ tc_send \/ tc_push_load \/ tc_push_cas \/ timerCallback_return
  \/ loop_check_stop \/ loop_sleep \/ stop \/ stop_join

SpecD == InitD /\ [][NextD]_vars

\* -------------------------------------------------------------- SpecO
\* SpecD with the ownership of the AsyncObject: the std::shared_ptr returned by
\* create (fate.user), the copy in the asyncObjects of the AsyncThread
\* (fate.attached), and the member async of every Producer and Instance. The
\* AsyncObject is destroyed by the step that leaves no owner.

\* a Producer that keeps no shared_ptr to the AsyncObject
ProducerShares_none(j) == FALSE

\* std::shared_ptr<AsyncObject> async of Producer j: from its constructor to the
\* destruction of its members, after ~Producer has called removeProducer
ProducerShares(j) == pc[PP(j)] \notin {"start", "cp_locked", "gone", "crashed"}

\* std::shared_ptr<AsyncObject> async of Instance i
InstanceShares(i) == pc[CP(i)] \notin {"start", "ci_locked", "gone", "crashed"}

\* the owners of the AsyncObject
Sharers ==
  {PP(j) : j \in {k \in ProducerIds : ProducerShares(k)}}
  \cup {CP(i) : i \in {k \in InstanceIds : InstanceShares(k)}}
  \cup (IF fate.user THEN {<<"user", 0>>} ELSE {})
  \cup (IF fate.attached THEN {<<"asyncObjects", 0>>} ELSE {})

\* the mutex of the AsyncThread is free between two iterations of its loop and
\* after the loop has returned
threadMutexFree == pc[W] \in {"idle", "stopped"}

ounused == <<head, next, message, freed, pc, node, front, back, seen, held, arg, ret,
             nsent, avars>>

\* AsyncThread::attachObject on an object attached to no AsyncThread
attachObject ==
  /\ Sharers # {} /\ ~fate.attached
  /\ threadMutexFree
  /\ fate' = [fate EXCEPT !.attached = TRUE]
  /\ UNCHANGED ounused

\* AsyncThread::detachObject: the erase destroys the shared_ptr of the set. If it
\* was the last one, ~AsyncObject runs inside the erase, finds asyncThread still
\* set and calls detachObject, which locks the mutex its caller holds
detachObject ==
  /\ fate.attached
  /\ threadMutexFree
  /\ fate' = [fate EXCEPT !.attached = FALSE]
  /\ IF Sharers = {<<"asyncObjects", 0>>}
     THEN /\ pc' = [p \in DOMAIN pc |-> "crashed"]
          /\ UNCHANGED <<head, next, message, freed, node, front, back, seen, held, arg,
                         ret, nsent, avars>>
     ELSE UNCHANGED ounused

\* the application lets go of the shared_ptr that create returned; no call made
\* through it is in progress
resetUser ==
  /\ fate.user
  /\ \A j \in ProducerIds : pc[PP(j)] # "cp_locked"
  /\ \A i \in InstanceIds : pc[CP(i)] # "ci_locked"
  /\ fate' = [fate EXCEPT !.user = FALSE]
  /\ UNCHANGED ounused

\* the loop of the AsyncThread with no object attached: no callback is called
loop_noObject ==
  /\ pc[W] = "idle" /\ ~fate.attached
  /\ Goto(W, "check_stop")
  /\ UNCHANGED <<head, next, message, freed, node, front, back, seen, arg, ret, munused, avars>>

\* AsyncObject::create(objectSettings): the caller holds the only shared_ptr
InitO ==
  /\ head = [s \in AStacks |-> 0]
  /\ next = <<>> /\ message = <<>> /\ freed = {}
  /\ pc = [p \in AProcs \cup {S} |-> IF p = W THEN "idle" ELSE "start"]
  /\ node = [p \in AProcs \cup {S} |-> 0]
  /\ front = [p \in AProcs \cup {S} |-> 0]
  /\ back = [p \in AProcs \cup {S} |-> 0]
  /\ seen = [p \in AProcs \cup {S} |-> 0]
  /\ held = [p \in AProcs \cup {S} |-> 0]
  /\ arg = [p \in AProcs \cup {S} |-> 0]
  /\ ret = [p \in AProcs \cup {S} |-> "none"]
  /\ nsent = 0
  /\ fate = [user |-> TRUE, attached |-> FALSE]
  /\ producers = <<>> /\ instances = <<>> /\ objectSettings = <<>>
  /\ mutex = {}
  /\ object = [i \in InstanceIds |-> 0]
  /\ objVal = <<>> /\ objState = <<>>
  /\ widx = 0 /\ anyChange = FALSE
  /\ chg = [c \in Change |-> "unsent"]
  /\ tickSubmitted = {} /\ builtNow = {}
  /\ lastSent = [i \in InstanceIds |-> 0]

NextO ==
  \/ \E j \in {FirstProducer} :
       \/ Sharers # {} /\ createProducer_lock(j)
       \/ createProducer(j)
       \/ submitChange(j) \/ sub_push_load(j) \/ sub_push_cas(j)
       \/ removeProducer_lock(j) \/ removeProducer(j) \/ destroyProducer(j)
  \/ \E i \in InstanceIds :
       \/ Sharers # {} /\ createInstance_lock(i)
       \/ createInstance(i)
       \/ update(i) \/ upd_push_load(i) \/ upd_push_cas(i)
       \/ removeInstance_lock(i) \/ removeInstance(i) \/ destroyInstance(i)
  \/ fate.attached /\ timerCallback_lock
  \/ tc_from \/ tc_handle \/ tc_handle_null
  \/ tc_rec_load \/ tc_rec_cas
  \/ tc_discard \/ tc_send \/ tc_push_load \/ tc_push_cas \/ timerCallback_return
  \/ loop_noObject \/ loop_check_stop \/ loop_sleep \/ stop \/ stop_join
  \/ attachObject \/ detachObject \/ resetUser

SpecO == InitO /\ [][NextO]_vars

\* -------------------------------------------------------------- SpecE
\* class Async of lockfree/Async.hpp with the removal of Instances and
\* Producers: instances and producers are vectors of unique_ptr, the access
\* tokens remove their element under the mutex of the Async object, which
\* timerCallback does not take.

\* ~InstanceAccessToken, removeInstance: removeFromToken(token, instances) erases the
\* unique_ptr and with it destroys the Instance; no tick is using the vector
removeInstance_erase(i) ==
  /\ pc[CP(i)] = "ri_locked"
  /\ pc[W] \notin InstanceLoop
  /\ instances' = Without(instances, i)
  /\ FreeChains(InstanceChains(i))
  /\ head' = [s \in DOMAIN head |->
               IF s \in {Lifo(To(i)), Storage(To(i)), Lifo(From(i)), Storage(From(i))}
               THEN 0 ELSE head[s]]
  /\ objState' = destroyed(<<object[i]>>
                           \o Payloads(head[Lifo(To(i))]) \o Payloads(head[Storage(To(i))])
                           \o Payloads(head[Lifo(From(i))]) \o Payloads(head[Storage(From(i))]))
  /\ object' = [object EXCEPT ![i] = 0]
  /\ mutex' = mutex \ {CP(i)}
  /\ Goto(CP(i), "gone")
  /\ UNCHANGED <<node, front, back, seen, arg, ret, munused>>
  /\ UNCHANGED <<producers, objectSettings, objVal, chg, tickvars>>

\* the same while timerCallback is in one of its loops over instances: the loop
\* keeps an iterator into the vector being erased from and a reference to an
\* Instance being deleted; the model ends the process there
removeInstance_raced(i) ==
  /\ pc[CP(i)] = "ri_locked"
  /\ pc[W] \in InstanceLoop
  /\ pc' = [p \in DOMAIN pc |-> "crashed"]
  /\ UNCHANGED <<head, next, message, freed, node, front, back, seen, arg, ret, munused, avars>>

\* ~ProducerAccessToken, removeProducer: removeFromToken(token, producers) erases the
\* unique_ptr and with it destroys the Producer; no tick is using the vector
removeProducer_erase(j) ==
  /\ pc[PP(j)] = "rp_locked"
  /\ pc[W] \notin ProducerLoop
  /\ producers' = Without(producers, j)
  /\ FreeChains({head[Lifo(Prod(j))], head[Storage(Prod(j))]})
  /\ head' = [head EXCEPT ![Lifo(Prod(j))] = 0, ![Storage(Prod(j))] = 0]
  /\ mutex' = mutex \ {PP(j)}
  /\ Goto(PP(j), "gone")
  /\ UNCHANGED <<node, front, back, seen, arg, ret, munused>>
  /\ UNCHANGED <<instances, objectSettings, object, objVal, objState, chg, tickvars>>

\* the same while timerCallback is in its loop over producers
removeProducer_raced(j) ==
  /\ pc[PP(j)] = "rp_locked"
  /\ pc[W] \in ProducerLoop
  /\ pc' = [p \in DOMAIN pc |-> "crashed"]
  /\ UNCHANGED <<head, next, message, freed, node, front, back, seen, arg, ret, munused, avars>>

NextE ==
  \/ \E j \in {FirstProducer} :
       \/ createProducer_lock(j) \/ createProducer(j)
       \/ submitChange(j) \/ sub_push_load(j) \/ sub_push_cas(j)
       \/ removeProducer_lock(j) \/ removeProducer_erase(j) \/ removeProducer_raced(j)
  \/ \E i \in InstanceIds :
       \/ createInstance_lock(i) \/ createInstance(i) \/ createInstance_raced(i)
       \/ update(i) \/ upd_push_load(i) \/ upd_push_cas(i)
       \/ removeInstance_lock(i) \/ removeInstance_erase(i) \/ removeInstance_raced(i)
  \/ timerCallback_begin \/ tc_from \/ tc_handle \/ tc_handle_null
  \/ tc_rec_load \/ tc_rec_cas
  \/ tc_discard \/ tc_send \/ tc_push_load \/ tc_push_cas \/ timerCallback_end

SpecE == InitA /\ [][NextE]_vars

\* C1: no node is reachable from both the lifo and the storage of the Messenger,
\* nor reachable from either while a thread holds it detached (nor held by two threads).
C1_NoNodeInTwoPlaces ==
  /\ Live(M) \cap Free(M) = {}
  /\ \A p \in Thread : Held(p) \cap (Live(M) \cup Free(M)) = {}
  /\ \A p, q \in Thread : p # q => Held(p) \cap Held(q) = {}

\* C2: allocated = live + free + detached + destroyed, nothing lost, nothing counted twice.
C2_NodesConserved ==
  /\ nalloc = Len(Chain(head[Lifo(M)])) + Len(Chain(head[Storage(M)]))
              + Sum([p \in Thread |-> HeldCount(p)], Thread) + Cardinality(freed)
  /\ Allocated = Live(M) \cup Free(M) \cup UNION {Held(p) : p \in Thread} \cup freed

\* a thread holds a received node detached while the lifo and the storage both have nodes
C1_Witness ==
  \E p \in Thread : held[p] # 0 /\ Live(M) # {} /\ Free(M) # {}

\* a sender has popped the whole storage and holds its head and the rest
C2_Witness ==
  \E p \in Thread : pc[p] = "send_pm_cas" /\ node[p] # 0 /\ front[p] # 0 /\ freed # {}

\* C3: when receiveAllNodes runs after every send so far has returned, and nothing
\* was received or discarded before, the chain it returns carries exactly the
\* payloads sent, each once.
C3_ReceiveAllIsTheMultisetSent ==
  [][\A t \in Thread :
       (receiveAllNodes(t) /\ \A m \in Msg : fate[m] \in {"unsent", "sent"})
       => /\ \A m \in Msg :
               Occurrences(Payloads(held[t])', m) = IF fate[m] = "sent" THEN 1 ELSE 0
          /\ Len(Payloads(held[t])') = Cardinality({m \in Msg : fate[m] = "sent"})]_vars

\* the sends of messages 1 and 2 overlapped (the send that began first pushed last,
\* so message 1 is above message 2) and one receiveAllNodes returned both
C3_Witness ==
  \E t \in Thread :
    /\ Payloads(held[t]) = <<1, 2>>
    /\ \A m \in Msg : fate[m] = "received"
    /\ ret[t] = "node"

LiveCopies(m) == Occurrences(Payloads(head[Lifo(M)]), m)

\* C4 as stated: a payload whose send returned is in the lifo or was handed to exactly
\* one receive call, unless a discard took it.
C4_Original ==
  \A m \in Msg :
    /\ fate[m] \notin {"dup", "coalesced"}
    /\ fate[m] = "sent" => LiveCopies(m) = 1

\* C4 amended: a payload whose send returned is in the lifo exactly once, or was handed
\* to exactly one receive call, or was dropped by a discard or by a receiveLastNode /
\* receiveLastMessage that popped it below a newer message; never two of these.
C4_ReceivedOnceOrDropped ==
  \A m \in Msg :
    /\ fate[m] # "dup"
    /\ LiveCopies(m) = IF fate[m] = "sent" THEN 1 ELSE 0

\* both threads popped: one message was received, the other dropped by a receiveLast
C4_Witness ==
  \E m1, m2 \in Msg : fate[m1] = "received" /\ fate[m2] = "coalesced"

\* ------------------------------------------------------ AsyncObject, claims
Applied == Range(objectSettings)

\* C5: every change whose submission succeeded is applied exactly once. No change is
\* applied twice, only changes whose submission succeeded are applied, and when a tick
\* completes every change submitted before it began has been applied (so with every
\* change submitted, Settings has all NumProducers * MaxChanges of them).
C5_AppliedExactlyOnce ==
  /\ \A c \in Change : Occurrences(objectSettings, c) <= 1
  /\ \A c \in Applied : chg[c] = "submitted"
  /\ pc[W] = "tc_unlock" => tickSubmitted \subseteq Applied
  /\ (pc[W] = "tc_unlock" /\ tickSubmitted = Change)
       => Len(objectSettings) = NumProducers * MaxChanges

\* a tick completes that began after every change of every Producer was submitted
C5_Witness ==
  /\ pc[W] = "tc_unlock"
  /\ tickSubmitted = Change
  /\ Len(objectSettings) = NumProducers * MaxChanges

\* C6: the changes of one Producer are applied in the order it submitted them, within
\* a tick and across ticks.
C6_ProducerOrder ==
  \A a, b \in 1..Len(objectSettings) :
    (a < b /\ ChangeOwner(objectSettings[a]) = ChangeOwner(objectSettings[b]))
      => objectSettings[a] < objectSettings[b]

\* one tick popped a chain of two changes of one Producer and applied both, after
\* other changes had been applied
C6_Witness ==
  /\ pc[W] = "tc_rec_load"
  /\ count(front[W]) >= 2
  /\ Len(objectSettings) > count(front[W])

SnapshotsOfTick == {"tc_discard", "tc_send", "tc_push_load", "tc_push_cas", "tc_unlock"}

\* C7: the changes submitted before a tick began are applied before the tick builds
\* a snapshot, and every snapshot built in the tick (installed or not) was built
\* from Settings with all of them applied.
C7_AppliedBeforeSnapshot ==
  /\ pc[W] \in SnapshotsOfTick => tickSubmitted \subseteq Applied
  /\ \A o \in builtNow : tickSubmitted \subseteq Range(objVal[o])
  /\ \A i \in InstanceIds :
       object[i] \in builtNow => tickSubmitted \subseteq Range(objVal[object[i]])

\* an Instance has installed the snapshot of the tick still running, which began
\* after some change was submitted
C7_Witness ==
  \E i \in InstanceIds :
    /\ pc[W] = "tc_unlock"
    /\ object[i] \in builtNow
    /\ tickSubmitted # {}

\* the nodes of the toInstance Messengers, which also travel through fromInstance
IsObjectNode(n) == (n - 1) \div ArenaSize > NumProducers

Holders(o) ==
  Cardinality({i \in InstanceIds : object[i] = o})
  + Cardinality({n \in Allocated \ freed : IsObjectNode(n) /\ message[n] = o})

\* C8: every Object that exists is held by exactly one unique_ptr, that of an Instance
\* or that of a node of its Messengers (in a stack or in the hands of update or of
\* the tick); a destroyed Object is held by none, and none is destroyed twice.
C8_OneHolder ==
  \A o \in DOMAIN objState :
    /\ objState[o] # "destroyed twice"
    /\ objState[o] = "alive" => Holders(o) = 1
    /\ objState[o] = "destroyed" => Holders(o) = 0

\* an Instance installed a snapshot, the Object it held before came back through
\* fromInstance and was destroyed by a tick, and a newer snapshot waits in toInstance
C8_Witness ==
  \E i \in InstanceIds :
    /\ object[i] # 0
    /\ head[Lifo(To(i))] # 0
    /\ \E o \in DOMAIN objState : o < object[i] /\ objState[o] = "destroyed"

\* C9: toInstance never holds more than one snapshot; an update that installs a
\* snapshot installs the one of the last send to this Instance that completed, and
\* it is newer than the one the Instance held.
C9_FreshestSnapshot ==
  [][\A i \in InstanceIds :
       /\ count(head[Lifo(To(i))])' <= 1
       /\ object'[i] # object[i] /\ object[i] # 0
            => object'[i] = lastSent[i] /\ object'[i] > object[i]]_vars

\* an Instance holds the snapshot sent last, which is at least the second sent to it
C9_Witness ==
  \E i \in InstanceIds :
    /\ object[i] = lastSent[i]
    /\ object[i] > NumInstances + 1
    /\ pc[CP(i)] = "idle"

\* C10: while a tick runs no createInstance is constructing an Object from Settings.
C10_TickExcludesCreateInstance ==
  ~(TickRunning /\ \E i \in InstanceIds : pc[CP(i)] = "ci_locked")

\* C11: the lists are changed by a removal only while no tick runs, and while the
\* tick is in a loop over a list the element it is at is in the list and its
\* Instance or Producer has not finished removing itself.
C11_RemovalExcludesTick ==
  /\ ~(TickRunning /\ \E j \in ProducerIds : pc[PP(j)] = "rp_locked")
  /\ ~(TickRunning /\ \E i \in InstanceIds : pc[CP(i)] = "ri_locked")
  /\ pc[W] \in InstanceLoop
       => /\ widx \in 1..Len(instances)
          /\ pc[CP(instances[widx])] \notin {"ri_done", "gone"}
  /\ pc[W] \in ProducerLoop
       => /\ widx \in 1..Len(producers)
          /\ pc[PP(producers[widx])] \notin {"rp_done", "gone"}

\* ------------------------------------------------- SpecR: RealtimeObject
\* RealtimeObject<Object> of lockfree/RealtimeObject.hpp: one realtime thread
\* calling getFromRealtimeThread, non-realtime threads calling set,
\* changeFromNonRealtimeThread and changeFromNonRealtimeThreadIf. The payloads
\* of the two Messengers are unique_ptr<Object>: message[n] is the Object the
\* node owns, 0 an empty unique_ptr. fate[o] is the history of Object o.
NumWriters == 2       \* non-realtime threads of SpecW (SpecR has the first only)
MaxSets == 3          \* Objects handed to set in SpecR and SpecW
Prealloc == 2         \* numNodesToPreallocate of the constructor

RT == <<"rt", 0>>
Writer == {<<"nrt", k>> : k \in 1..NumWriters}
FirstWriter == <<"nrt", 1>>
messengerForNewObjects == <<"new", 0>>
messengerForOldObjects == <<"old", 0>>
currentObjectStorage == object.currentObjectStorage
currentObjectPtr == object.currentObjectPtr
RObject == 1..(MaxSets + 1)
SetValues == {7}
Predicates == {"any", "isZero"}

RStacks ==
  {Lifo(messengerForNewObjects), Storage(messengerForNewObjects),
   Lifo(messengerForOldObjects), Storage(messengerForOldObjects)}
RProcs == Writer \cup {RT}

runused == <<nsent, producers, instances, objectSettings, mutex, widx, anyChange, chg,
             tickSubmitted, builtNow, lastSent>>

\* a use of an Object after its destruction ends the process, if it faults
useAfterFree ==
  /\ pc' = [p \in DOMAIN pc |-> "crashed"]
  /\ UNCHANGED <<head, next, message, freed, node, front, back, seen, held, arg, ret,
                 fate, object, objVal, objState, runused>>

\* std::optional<T>(std::move(head->get())): the unique_ptr of the head is left empty
movedFrom_kept(h) == [message EXCEPT ![h] = message[h]]

\* std::optional<T>(std::move(head->get())): the unique_ptr of the head is left empty
movedFrom(h) == [message EXCEPT ![h] = 0]

\* getFromRealtimeThread: messengerForNewObjects.receiveLastMessage(), the pop
getFromRealtimeThread ==
  /\ pc[RT] = "idle"
  /\ LET h == head[Lifo(messengerForNewObjects)] IN
     /\ head' = pop_all(Lifo(messengerForNewObjects))
     /\ IF h = 0
        THEN \* no new version: return currentObjectStorage.get()
             /\ Return(RT, currentObjectStorage)
             /\ UNCHANGED <<pc, message, held, front, back, fate>>
        ELSE /\ held' = [held EXCEPT ![RT] = message[h]]
             /\ message' = movedFrom(h)
             /\ fate' = [o \in RObject |->
                           IF o \in Range(Tail(Payloads(h))) THEN "skipped" ELSE fate[o]]
             /\ Args(RT, h)
             /\ Goto(RT, "get_rec_load")
             /\ UNCHANGED ret
  /\ UNCHANGED <<next, freed, node, seen, arg, object, objVal, objState, runused>>

\* receiveLastMessage: storage.push_multiple(head, head->last()), read of the head
get_rec_load ==
  /\ pc[RT] = "get_rec_load"
  /\ LoadStep(RT, Storage(messengerForNewObjects))
  /\ Goto(RT, "get_rec_cas")
  /\ UNCHANGED <<held, arg, ret, fate, object, objVal, objState, runused>>

\* receiveLastMessage: storage.push_multiple(head, head->last()), compare-and-swap
get_rec_cas ==
  /\ pc[RT] = "get_rec_cas"
  /\ CasStep(RT, Storage(messengerForNewObjects))
  /\ Goto(RT, IF push_cas_ok(Storage(messengerForNewObjects), RT)
              THEN "get_send" ELSE "get_rec_load")
  /\ UNCHANGED <<next, message, freed, node, held, arg, ret, fate, object, objVal,
                 objState, runused>>

\* messengerForOldObjects.send(std::move(currentObjectStorage)): a node of the
\* storage, or a new node if the storage is empty
get_send ==
  /\ pc[RT] = "get_send"
  /\ \/ /\ TakeFromStorage(RT, messengerForOldObjects, currentObjectStorage)
        /\ Goto(RT, IF sendRemainder(head[Storage(messengerForOldObjects)]) # 0
                    THEN "get_pm_load" ELSE "get_push_load")
     \/ /\ nalloc < ArenaSize
        /\ TakeNew(RT, messengerForOldObjects, currentObjectStorage)
        /\ Goto(RT, "get_push_load")
  /\ object' = [object EXCEPT !.currentObjectStorage = 0]
  /\ UNCHANGED <<freed, seen, held, arg, ret, fate, objVal, objState, runused>>

\* send: storage.push_multiple(next, next->last()), read of the head
get_pm_load ==
  /\ pc[RT] = "get_pm_load"
  /\ LoadStep(RT, Storage(messengerForOldObjects))
  /\ Goto(RT, "get_pm_cas")
  /\ UNCHANGED <<held, arg, ret, fate, object, objVal, objState, runused>>

\* send: storage.push_multiple(next, next->last()), compare-and-swap
get_pm_cas ==
  /\ pc[RT] = "get_pm_cas"
  /\ CasStep(RT, Storage(messengerForOldObjects))
  /\ Goto(RT, IF push_cas_ok(Storage(messengerForOldObjects), RT)
              THEN "get_push_load" ELSE "get_pm_load")
  /\ UNCHANGED <<next, message, freed, node, held, arg, ret, fate, object, objVal,
                 objState, runused>>

\* send: lifo.push(node), read of the head
get_push_load ==
  /\ pc[RT] = "get_push_load"
  /\ PushLoadStep(RT, Lifo(messengerForOldObjects))
  /\ Goto(RT, "get_push_cas")
  /\ UNCHANGED <<held, arg, ret, fate, object, objVal, objState, runused>>

\* send: lifo.push(node), compare-and-swap
get_push_cas ==
  /\ pc[RT] = "get_push_cas"
  /\ PushCasStep(RT, Lifo(messengerForOldObjects))
  /\ Goto(RT, IF push_cas_ok(Lifo(messengerForOldObjects), RT)
              THEN "get_store" ELSE "get_push_load")
  /\ UNCHANGED <<next, message, freed, front, back, held, arg, ret, fate, object,
                 objVal, objState, runused>>

\* currentObjectStorage = std::move(newObject.value()); currentObjectPtr.store(...);
\* return currentObjectStorage.get()
get_store ==
  /\ pc[RT] = "get_store"
  /\ object' = [currentObjectStorage |-> held[RT], currentObjectPtr |-> held[RT]]
  /\ fate' = [o \in RObject |->
                IF o = held[RT] THEN "current"
                ELSE IF fate[o] = "current" THEN "displaced" ELSE fate[o]]
  /\ held' = [held EXCEPT ![RT] = 0]
  /\ Return(RT, held[RT])
  /\ Goto(RT, "idle")
  /\ UNCHANGED <<head, next, message, freed, node, front, back, seen, arg, objVal,
                 objState, runused>>

\* std::make_unique<Object>(...) of a non-realtime thread, with value v
newVersion(w, v) ==
  /\ nobj < MaxSets + 1
  /\ objVal' = Append(objVal, v)
  /\ objState' = Append(objState, "alive")
  /\ arg' = [arg EXCEPT ![w] = NewObject]
  /\ fate' = [fate EXCEPT ![NewObject] = "unset"]

\* a caller of set(std::move(newObject)) with an Object it has made
set(w) ==
  /\ pc[w] = "idle"
  /\ \E v \in SetValues : newVersion(w, v)
  /\ Goto(w, "set")
  /\ UNCHANGED <<head, next, message, freed, node, front, back, seen, held, ret, object,
                 runused>>

\* changeFromNonRealtimeThread: objectPtr = getFromNonRealtimeThread()
changeFromNonRealtimeThread(w) ==
  /\ pc[w] = "idle"
  /\ held' = [held EXCEPT ![w] = currentObjectPtr]
  /\ Goto(w, "chg_copy")
  /\ UNCHANGED <<head, next, message, freed, node, front, back, seen, arg, ret, fate,
                 object, objVal, objState, runused>>

\* the predicate of changeFromNonRealtimeThreadIf applied to an Object
predicate(p, o) == p = "any" \/ objVal[o] = 0

\* changeFromNonRealtimeThreadIf: objectPtr = getFromNonRealtimeThread();
\* predicate(*objectPtr)
changeFromNonRealtimeThreadIf(w) ==
  /\ pc[w] = "idle"
  /\ held' = [held EXCEPT ![w] = currentObjectPtr]
  /\ \E p \in Predicates :
       IF predicate(p, currentObjectPtr)
       THEN /\ Goto(w, "chg_copy")
            /\ Return(w, "true")
       ELSE /\ Goto(w, "idle")
            /\ Return(w, "false")
  /\ UNCHANGED <<head, next, message, freed, node, front, back, seen, arg, fate,
                 object, objVal, objState, runused>>

\* changeFromNonRealtimeThreadIf: predicate(*objectPtr) reads an Object that was
\* destroyed
changeFromNonRealtimeThreadIf_freed(w) ==
  /\ pc[w] = "idle"
  /\ objState[currentObjectPtr] # "alive"
  /\ useAfterFree

\* objectCopy = std::make_unique<Object>(*objectPtr); change(*objectCopy): the
\* change adds one. If the Object was destroyed, what is read is what it last held
chg_copy(w) ==
  /\ pc[w] = "chg_copy"
  /\ newVersion(w, objVal[held[w]] + 1)
  /\ held' = [held EXCEPT ![w] = 0]
  /\ Goto(w, "set")
  /\ UNCHANGED <<head, next, message, freed, node, front, back, seen, ret, object,
                 runused>>

\* std::make_unique<Object>(*objectPtr) reads an Object that was destroyed
chg_copy_freed(w) ==
  /\ pc[w] = "chg_copy"
  /\ objState[held[w]] # "alive"
  /\ useAfterFree

\* a set that recycles the nodes with the Objects still in them
resetObject_kept(o) == o

\* [](auto& object) { object.reset(); }: what the unique_ptr of a node holds afterwards
resetObject(o) == 0

\* the nodes set recycles after it has reset their Objects
setRecycled(messages) == messages

\* set: receiveAndHandleMessageStack(messengerForOldObjects, reset): the pop of the
\* lifo and object.reset() on every node of the chain
set_receive(w) ==
  /\ pc[w] = "set"
  /\ LET s == Lifo(messengerForOldObjects)
         messages == head[s]
     IN
     /\ head' = pop_all(s)
     /\ objState' = destroyed(SelectSeq(Payloads(messages), LAMBDA o : o # 0))
     /\ message' = [n \in Allocated |->
                      IF n \in Range(Chain(messages)) THEN resetObject(message[n])
                      ELSE message[n]]
     /\ fate' = [o \in RObject |->
                   IF fate[o] = "displaced" THEN "due"
                   ELSE IF fate[o] = "skipped" /\ pc[RT] = "idle" THEN "skipped, due"
                   ELSE fate[o]]
     /\ IF setRecycled(messages) = 0
        THEN \* messages->count() on nullptr returned 0; recycle(nullptr) does nothing
             /\ Goto(w, "set_send")
             /\ UNCHANGED <<front, back>>
        ELSE /\ Args(w, setRecycled(messages))
             /\ Goto(w, "set_rec_load")
  /\ UNCHANGED <<next, freed, node, seen, held, arg, ret, object, objVal, runused>>

\* receiveAndHandleMessageStack: messages->count() with messages == nullptr is a
\* member call on a null pointer; the build may also fault there
set_receive_null(w) ==
  /\ pc[w] = "set"
  /\ head[Lifo(messengerForOldObjects)] = 0
  /\ pc' = [p \in DOMAIN pc |-> "crashed"]
  /\ UNCHANGED <<head, next, message, freed, node, front, back, seen, held, arg, ret,
                 fate, object, objVal, objState, runused>>

\* receiveAndHandleMessageStack: messenger.recycle(messages), read of the head
set_rec_load(w) ==
  /\ pc[w] = "set_rec_load"
  /\ LoadStep(w, Storage(messengerForOldObjects))
  /\ Goto(w, "set_rec_cas")
  /\ UNCHANGED <<held, arg, ret, fate, object, objVal, objState, runused>>

\* receiveAndHandleMessageStack: messenger.recycle(messages), compare-and-swap
set_rec_cas(w) ==
  /\ pc[w] = "set_rec_cas"
  /\ CasStep(w, Storage(messengerForOldObjects))
  /\ Goto(w, IF push_cas_ok(Storage(messengerForOldObjects), w)
             THEN "set_send" ELSE "set_rec_load")
  /\ UNCHANGED <<next, message, freed, node, held, arg, ret, fate, object, objVal,
                 objState, runused>>

\* set: messengerForNewObjects.send(std::move(newObject)): a node of the storage,
\* whose unique_ptr is assigned (the Object it still owned is destroyed), or a new node
set_send(w) ==
  /\ pc[w] = "set_send"
  /\ \/ /\ TakeFromStorage(w, messengerForNewObjects, arg[w])
        /\ objState' = destroyed(SelectSeq(<<message[head[Storage(messengerForNewObjects)]]>>,
                                           LAMBDA o : o # 0))
        /\ Goto(w, IF sendRemainder(head[Storage(messengerForNewObjects)]) # 0
                   THEN "set_pm_load" ELSE "set_push_load")
     \/ /\ nalloc < ArenaSize
        /\ TakeNew(w, messengerForNewObjects, arg[w])
        /\ Goto(w, "set_push_load")
        /\ UNCHANGED objState
  /\ UNCHANGED <<freed, seen, held, arg, ret, fate, object, objVal, runused>>

\* send: storage.push_multiple(next, next->last()), read of the head
set_pm_load(w) ==
  /\ pc[w] = "set_pm_load"
  /\ LoadStep(w, Storage(messengerForNewObjects))
  /\ Goto(w, "set_pm_cas")
  /\ UNCHANGED <<held, arg, ret, fate, object, objVal, objState, runused>>

\* send: storage.push_multiple(next, next->last()), compare-and-swap
set_pm_cas(w) ==
  /\ pc[w] = "set_pm_cas"
  /\ CasStep(w, Storage(messengerForNewObjects))
  /\ Goto(w, IF push_cas_ok(Storage(messengerForNewObjects), w)
             THEN "set_push_load" ELSE "set_pm_load")
  /\ UNCHANGED <<next, message, freed, node, held, arg, ret, fate, object, objVal,
                 objState, runused>>

\* send: lifo.push(node), read of the head
set_push_load(w) ==
  /\ pc[w] = "set_push_load"
  /\ PushLoadStep(w, Lifo(messengerForNewObjects))
  /\ Goto(w, "set_push_cas")
  /\ UNCHANGED <<held, arg, ret, fate, object, objVal, objState, runused>>

\* send: lifo.push(node), compare-and-swap; on success set returns
set_push_cas(w) ==
  /\ pc[w] = "set_push_cas"
  /\ PushCasStep(w, Lifo(messengerForNewObjects))
  /\ Goto(w, IF push_cas_ok(Lifo(messengerForNewObjects), w) THEN "idle" ELSE "set_push_load")
  /\ fate' = IF push_cas_ok(Lifo(messengerForNewObjects), w)
             THEN [fate EXCEPT ![arg[w]] = "set"] ELSE fate
  /\ arg' = [arg EXCEPT ![w] = IF push_cas_ok(Lifo(messengerForNewObjects), w) THEN 0 ELSE arg[w]]
  /\ UNCHANGED <<next, message, freed, front, back, held, ret, object, objVal, objState,
                 runused>>

\* RealtimeObject(std::make_unique<Object>(0), Prealloc): the state the
\* constructor leaves. allocateNodes chains Prealloc nodes with empty
\* unique_ptrs and recycles the chain into the storage of each Messenger.
InitR ==
  /\ next = [n \in 1..(2 * Prealloc) |-> IF n % Prealloc = 0 THEN 0 ELSE n + 1]
  /\ message = [n \in 1..(2 * Prealloc) |-> 0]
  /\ head = [s \in RStacks |->
               IF s = Storage(messengerForNewObjects) THEN 1
               ELSE IF s = Storage(messengerForOldObjects) THEN Prealloc + 1
               ELSE 0]
  /\ freed = {}
  /\ pc = [p \in RProcs |-> "idle"]
  /\ node = [p \in RProcs |-> 0]
  /\ front = [p \in RProcs |-> 0]
  /\ back = [p \in RProcs |-> 0]
  /\ seen = [p \in RProcs |-> 0]
  /\ held = [p \in RProcs |-> 0]
  /\ arg = [p \in RProcs |-> 0]
  /\ ret = [p \in RProcs |-> "none"]
  /\ object = [currentObjectStorage |-> 1, currentObjectPtr |-> 1]
  /\ objVal = <<0>> /\ objState = <<"alive">>
  /\ fate = [o \in RObject |-> IF o = 1 THEN "current" ELSE "none"]
  /\ nsent = 0
  /\ producers = <<>> /\ instances = <<>> /\ objectSettings = <<>>
  /\ mutex = {}
  /\ widx = 0 /\ anyChange = FALSE /\ chg = <<>>
  /\ tickSubmitted = {} /\ builtNow = {} /\ lastSent = <<>>

NextWriter(w) ==
  \/ set(w) \/ changeFromNonRealtimeThread(w)
  \/ changeFromNonRealtimeThreadIf(w) \/ changeFromNonRealtimeThreadIf_freed(w)
  \/ chg_copy(w) \/ chg_copy_freed(w)
  \/ set_receive(w) \/ set_receive_null(w) \/ set_rec_load(w) \/ set_rec_cas(w)
  \/ set_send(w) \/ set_pm_load(w) \/ set_pm_cas(w)
  \/ set_push_load(w) \/ set_push_cas(w)

NextRT ==
  \/ getFromRealtimeThread \/ get_rec_load \/ get_rec_cas
  \/ get_send \/ get_pm_load \/ get_pm_cas \/ get_push_load \/ get_push_cas
  \/ get_store

\* one realtime thread, one non-realtime thread
NextR == NextRT \/ NextWriter(FirstWriter)

SpecR == InitR /\ [][NextR]_vars

\* a non-realtime thread that only calls changeFromNonRealtimeThread
NextChanger(w) ==
  \/ changeFromNonRealtimeThread(w)
  \/ chg_copy(w) \/ chg_copy_freed(w)
  \/ set_receive(w) \/ set_receive_null(w) \/ set_rec_load(w) \/ set_rec_cas(w)
  \/ set_send(w) \/ set_pm_load(w) \/ set_pm_cas(w)
  \/ set_push_load(w) \/ set_push_cas(w)

\* one realtime thread, several non-realtime threads: the first calls all of
\* set, changeFromNonRealtimeThread and changeFromNonRealtimeThreadIf, the others
\* changeFromNonRealtimeThread
NextW ==
  \/ NextRT
  \/ NextWriter(FirstWriter)
  \/ \E w \in Writer \ {FirstWriter} : NextChanger(w)

SpecW == InitR /\ [][NextW]_vars

\* ------------------------------- SpecK: one Messenger, one thread, k nodes
\* A Messenger on which allocateNodes(k) has returned, used by one thread that
\* calls sendIfNodeAvailable, receiveAllNodes and recycle any number of times.
FirstThread == <<"t", 1>>

\* bool sendIfNodeAvailable(T&& message) with any payload value, which may have
\* been sent before: the number of calls is not bounded
sendIfNodeAvailable_value(t) ==
  /\ Idle(t)
  /\ \/ \E msg \in Msg :
          /\ nodeAvailable(head[Storage(M)])
          /\ TakeFromStorage(t, M, msg)
          /\ fate' = [fate EXCEPT ![msg] = "sending"]
          /\ arg' = [arg EXCEPT ![t] = msg]
          /\ Return(t, "true")
          /\ Goto(t, IF sendRemainder(head[Storage(M)]) # 0
                     THEN "sina_pm_load" ELSE "sina_push_load")
     \/ /\ ~nodeAvailable(head[Storage(M)])
        /\ head' = pop_all(Storage(M))
        /\ Return(t, "false")
        /\ UNCHANGED <<next, message, node, front, back, pc, arg, fate>>
  /\ UNCHANGED <<nsent, freed, seen, held, avars>>

\* Messenger<T> m; m.allocateNodes(k): k nodes with default constructed
\* payloads, chained in the order of their allocation, in the storage
InitK ==
  \E k \in 1..MaxNodes :
    /\ next = [n \in 1..k |-> IF n = k THEN 0 ELSE n + 1]
    /\ message = [n \in 1..k |-> 0]
    /\ head = [s \in Stacks |-> IF s = Storage(M) THEN 1 ELSE 0]
    /\ freed = {}
    /\ pc = [p \in Procs |-> "idle"]
    /\ node = [p \in Procs |-> 0]
    /\ front = [p \in Procs |-> 0]
    /\ back = [p \in Procs |-> 0]
    /\ seen = [p \in Procs |-> 0]
    /\ held = [p \in Procs |-> 0]
    /\ arg = [p \in Procs |-> 0]
    /\ ret = [p \in Procs |-> "none"]
    /\ nsent = 0
    /\ fate = [m \in Msg |-> "unsent"]
    /\ producers = <<>> /\ instances = <<>> /\ objectSettings = <<>>
    /\ mutex = {} /\ object = <<>> /\ objVal = <<>> /\ objState = <<>>
    /\ widx = 0 /\ anyChange = FALSE /\ chg = <<>>
    /\ tickSubmitted = {} /\ builtNow = {} /\ lastSent = <<>>

NextK ==
  \E t \in {FirstThread} :
    \/ sendIfNodeAvailable_value(t) \/ sina_pm_load(t) \/ sina_pm_cas(t)
    \/ sina_push_load(t) \/ sina_push_cas(t)
    \/ receiveAllNodes(t)
    \/ recycle(t) \/ rec_pm_load(t) \/ rec_pm_cas(t)

SpecK == InitK /\ [][NextK]_vars

\* ----------------------------- SpecQ: one Messenger used by a single thread
\* handleMessageStack(head, action) called by the thread on the chain it received
callHandleMessageStack(t) ==
  /\ Idle(t) /\ held[t] # 0
  /\ fate' = [m \in Msg |->
               IF Occurrences(handleMessageStack(held[t]), m) = 0 THEN fate[m]
               ELSE IF Occurrences(handleMessageStack(held[t]), m) = 1 /\ fate[m] = "received"
                    THEN "handled" ELSE "dup"]
  /\ Return(t, "handled")
  /\ UNCHANGED <<head, next, message, freed, pc, node, front, back, seen, held, arg,
                 nsent, avars>>

NextQ ==
  \E t \in {FirstThread} :
    \/ send(t) \/ send_pm_load(t) \/ send_pm_cas(t) \/ send_push_load(t) \/ send_push_cas(t)
    \/ sendIfNodeAvailable(t) \/ sina_pm_load(t) \/ sina_pm_cas(t)
    \/ sina_push_load(t) \/ sina_push_cas(t)
    \/ sendNode(t) \/ sn_push_load(t) \/ sn_push_cas(t)
    \/ receiveLastMessage(t) \/ rlm_pm_load(t) \/ rlm_pm_cas(t)
    \/ receiveLastNode(t) \/ rln_pm_load(t) \/ rln_pm_cas(t)
    \/ receiveAllNodes(t) \/ callHandleMessageStack(t)
    \/ recycle(t) \/ rec_pm_load(t) \/ rec_pm_cas(t)
    \/ \E k \in 1..2 : allocateNodes(t, k)
    \/ discardAllMessages(t) \/ freeStorage(t) \/ discardAndFreeAllMessages(t)

SpecQ == InitM /\ [][NextQ]_vars

\* ------------------------------------------------------ SpecT: AsyncThread
\* One AsyncThread with its attached objects, the thread that owns it and calls
\* start() and stop(), a thread that calls isRunning(), and the worker. The
\* members of the AsyncThread are the fields of the record object; timerCallback
\* of an attached object is one step of the worker.

MaxAttached == 2     \* objects attached to the AsyncThread

Owner == <<"owner", 0>>
Observer == <<"observer", 0>>
TProcs == {Owner, Observer, W}

asyncObjects == object.asyncObjects
timer == object.timer
isRunningFlag == object.isRunningFlag
stopTimerFlagAtomic == object.stopTimerFlag

tunused == <<head, next, message, freed, node, front, back, seen, held, arg, nsent,
             producers, instances, objectSettings, objVal, objState, anyChange, chg,
             tickSubmitted, builtNow, lastSent>>

\* a start() that does not look at the flag
alreadyRunning_ignored == FALSE

\* if (isRunningFlag.load(std::memory_order_acquire)) return;
alreadyRunning == isRunningFlag

\* start(): the load of isRunningFlag; return if it is set
at_start ==
  /\ pc[Owner] = "idle"
  /\ IF alreadyRunning
     THEN fate' = [fate EXCEPT !.start = "returned"] /\ UNCHANGED pc
     ELSE fate' = [fate EXCEPT !.start = "starting"] /\ Goto(Owner, "start_stopTimerFlag")
  /\ UNCHANGED <<object, mutex, widx, ret, tunused>>

\* a start() that leaves the flag as the last stop() left it
stopTimerFlagAtStart_stale == object.stopTimerFlag

\* the value stored by stopTimerFlag.store(false, std::memory_order_release)
stopTimerFlagAtStart == FALSE

\* start(): stopTimerFlag.store(false)
at_start_stopTimerFlag ==
  /\ pc[Owner] = "start_stopTimerFlag"
  /\ object' = [object EXCEPT !.stopTimerFlag = stopTimerFlagAtStart]
  /\ Goto(Owner, "start_isRunningFlag")
  /\ UNCHANGED <<fate, mutex, widx, ret, tunused>>

\* start(): isRunningFlag.store(true)
at_start_isRunningFlag ==
  /\ pc[Owner] = "start_isRunningFlag"
  /\ object' = [object EXCEPT !.isRunningFlag = TRUE]
  /\ Goto(Owner, "start_thread")
  /\ UNCHANGED <<fate, mutex, widx, ret, tunused>>

\* start(): timer = std::thread(...). The new thread exists from its construction;
\* the move assignment to a joinable std::thread calls std::terminate.
at_start_thread ==
  /\ pc[Owner] = "start_thread"
  /\ IF timer = "joinable"
     THEN /\ pc' = [p \in TProcs |-> "terminated"]
          /\ fate' = [fate EXCEPT !.start = "second thread"]
          /\ UNCHANGED object
     ELSE /\ object' = [object EXCEPT !.timer = "joinable"]
          /\ pc' = [pc EXCEPT ![Owner] = "idle", ![W] = "loop"]
          /\ fate' = [fate EXCEPT !.start = "started", !.last = "start"]
  /\ UNCHANGED <<mutex, widx, ret, tunused>>

\* the worker, while (true): the lock_guard of the iteration
at_loop_lock ==
  /\ pc[W] = "loop" /\ mutex = {}
  /\ mutex' = {W}
  /\ widx' = 1
  /\ Goto(W, "callbacks")
  /\ UNCHANGED <<object, fate, ret, tunused>>

\* the worker: asyncObject->timerCallback() for the next attached object, or the
\* end of the for statement
at_loop_timerCallback ==
  /\ pc[W] = "callbacks"
  /\ IF widx \in asyncObjects
     THEN widx' = widx + 1 /\ UNCHANGED pc
     ELSE widx' = 0 /\ Goto(W, "check_stop")
  /\ UNCHANGED <<object, fate, mutex, ret, tunused>>

\* a worker that does not look at the flag
stopRequested_ignored == FALSE

\* if (stopTimerFlag.load(std::memory_order_acquire)) return;
stopRequested == stopTimerFlagAtomic

\* the worker: the check after the callbacks; the return releases the mutex
at_loop_check_stop ==
  /\ pc[W] = "check_stop"
  /\ IF stopRequested
     THEN mutex' = {} /\ Goto(W, "returned")
     ELSE UNCHANGED mutex /\ Goto(W, "sleeping")
  /\ UNCHANGED <<object, fate, widx, ret, tunused>>

\* the worker: sleep_for(timerPeriod) and the check after it; the iteration ends
\* and the mutex is released in both cases
at_loop_sleep ==
  /\ pc[W] = "sleeping"
  /\ mutex' = {}
  /\ Goto(W, IF stopRequested THEN "returned" ELSE "loop")
  /\ UNCHANGED <<object, fate, widx, ret, tunused>>

\* stop(): stopTimerFlag.store(true)
at_stop ==
  /\ pc[Owner] = "idle"
  /\ object' = [object EXCEPT !.stopTimerFlag = TRUE]
  /\ fate' = [fate EXCEPT !.stop = "stopping"]
  /\ Goto(Owner, "stop_joinable")
  /\ UNCHANGED <<mutex, widx, ret, tunused>>

\* a stop() that does not wait for the worker
joinable_never == FALSE

\* timer.joinable()
joinable == timer = "joinable"

\* stop(): if (timer.joinable())
at_stop_joinable ==
  /\ pc[Owner] = "stop_joinable"
  /\ Goto(Owner, IF joinable THEN "stop_join" ELSE "stop_isRunningFlag")
  /\ fate' = [fate EXCEPT !.stop = IF joinable THEN "joining" ELSE "not joinable"]
  /\ UNCHANGED <<object, mutex, widx, ret, tunused>>

\* stop(): timer.join() returns when the worker has returned
at_stop_join ==
  /\ pc[Owner] = "stop_join" /\ pc[W] = "returned"
  /\ object' = [object EXCEPT !.timer = "not joinable"]
  /\ pc' = [pc EXCEPT ![Owner] = "stop_isRunningFlag", ![W] = "none"]
  /\ fate' = [fate EXCEPT !.stop = "joined"]
  /\ UNCHANGED <<mutex, widx, ret, tunused>>

\* stop(): isRunningFlag.store(false), return
at_stop_isRunningFlag ==
  /\ pc[Owner] = "stop_isRunningFlag"
  /\ object' = [object EXCEPT !.isRunningFlag = FALSE]
  /\ fate' = [fate EXCEPT !.last = "stop"]
  /\ Goto(Owner, "idle")
  /\ UNCHANGED <<mutex, widx, ret, tunused>>

\* bool isRunning() const, called by another thread
isRunning ==
  /\ pc[Observer] = "idle"
  /\ Return(Observer, IF isRunningFlag THEN "true" ELSE "false")
  /\ UNCHANGED <<pc, object, fate, mutex, widx, tunused>>

\* AsyncThread thread; the objects 1..k have been attached to it
InitT ==
  /\ \E k \in 0..MaxAttached :
       object = [asyncObjects |-> 1..k, timer |-> "not joinable",
                 stopTimerFlag |-> FALSE, isRunningFlag |-> FALSE]
  /\ pc = [p \in TProcs |-> IF p = W THEN "none" ELSE "idle"]
  /\ ret = [p \in TProcs |-> "none"]
  /\ fate = [start |-> "none", stop |-> "none", last |-> "none"]
  /\ mutex = {} /\ widx = 0
  /\ head = <<>> /\ next = <<>> /\ message = <<>> /\ freed = {}
  /\ node = <<>> /\ front = <<>> /\ back = <<>> /\ seen = <<>>
  /\ held = <<>> /\ arg = <<>> /\ nsent = 0
  /\ producers = <<>> /\ instances = <<>> /\ objectSettings = <<>>
  /\ objVal = <<>> /\ objState = <<>>
  /\ anyChange = FALSE /\ chg = <<>>
  /\ tickSubmitted = {} /\ builtNow = {} /\ lastSent = <<>>

NextT ==
  \/ at_start \/ at_start_stopTimerFlag \/ at_start_isRunningFlag \/ at_start_thread
  \/ at_stop \/ at_stop_joinable \/ at_stop_join \/ at_stop_isRunningFlag
  \/ isRunning
  \/ at_loop_lock \/ at_loop_timerCallback \/ at_loop_check_stop \/ at_loop_sleep

SpecT == InitT /\ [][NextT]_vars

\* the threads are scheduled: the worker goes on, and so does a call of stop()
SpecTF ==
  /\ SpecT
  /\ WF_vars(at_loop_lock \/ at_loop_timerCallback \/ at_loop_check_stop \/ at_loop_sleep)
  /\ WF_vars(at_stop_joinable \/ at_stop_join \/ at_stop_isRunningFlag)

\* ------------------------------------- SpecU: attachObject and detachObject
\* Several AsyncThreads, each with its running worker, and threads of the
\* application that attach AsyncObjects to them and detach them. object holds
\* the asyncObjects of every AsyncThread and the asyncThread pointer of every
\* AsyncObject (0 is nullptr); mutex[th] is the holder of the mutex of th;
\* arg[c] is the AsyncThread and the object of the call of c, seen[c] the
\* prevAsyncThread it read.
NumAsyncThreads == 2   \* AsyncThreads of SpecU
NumCallers == 2        \* threads calling attachObject and detachObject in SpecU
NumObjects == 1        \* AsyncObjects of SpecU

AsyncThreads == 1..NumAsyncThreads
AsyncObjects == 1..NumObjects
Caller == {<<"caller", k>> : k \in 1..NumCallers}
Timer(th) == <<"timer", th>>
UProcs == Caller \cup {Timer(th) : th \in AsyncThreads}

uunused == <<head, next, message, freed, node, front, back, held, ret, nsent, fate,
             producers, instances, objectSettings, objVal, objState, widx, anyChange,
             chg, tickSubmitted, builtNow, lastSent>>

NoCall(c) ==
  /\ arg' = [arg EXCEPT ![c] = <<0, 0>>]
  /\ seen' = [seen EXCEPT ![c] = 0]

\* an attachObject that never looks for the AsyncThread the object is attached to
prevAsyncThread_none(o) == 0

\* auto prevAsyncThread = asyncObject.getAsyncThread(): read without a lock
prevAsyncThread(o) == object.asyncThread[o]

\* attachObject(asyncObject) on AsyncThread th: the read of the object's
\* AsyncThread; return if it is th, detach from it if there is one
attachObject_prev(c, th, o) ==
  /\ pc[c] = "idle"
  /\ IF prevAsyncThread(o) = th
     THEN UNCHANGED <<pc, arg, seen>>
     ELSE /\ arg' = [arg EXCEPT ![c] = <<th, o>>]
          /\ seen' = [seen EXCEPT ![c] = prevAsyncThread(o)]
          /\ Goto(c, IF prevAsyncThread(o) # 0 THEN "attach_detach" ELSE "attach_lock")
  /\ UNCHANGED <<object, mutex, uunused>>

\* attachObject: prevAsyncThread->detachObject(asyncObject), the lock_guard, the
\* find_if and the erase
attach_detach_lock(c) ==
  /\ pc[c] = "attach_detach"
  /\ mutex[seen[c]] = {}
  /\ IF arg[c][2] \in object.asyncObjects[seen[c]]
     THEN /\ object' = [object EXCEPT !.asyncObjects[seen[c]] = @ \ {arg[c][2]}]
          /\ mutex' = [mutex EXCEPT ![seen[c]] = {c}]
          /\ Goto(c, "attach_detach_set")
     ELSE /\ Goto(c, "attach_lock")
          /\ UNCHANGED <<object, mutex>>
  /\ UNCHANGED <<arg, seen, uunused>>

\* attachObject: prevAsyncThread->detachObject(asyncObject), setAsyncThread(nullptr)
\* and the return
attach_detach_set(c) ==
  /\ pc[c] = "attach_detach_set"
  /\ object' = [object EXCEPT !.asyncThread[arg[c][2]] = 0]
  /\ mutex' = [mutex EXCEPT ![seen[c]] = {}]
  /\ Goto(c, "attach_lock")
  /\ UNCHANGED <<arg, seen, uunused>>

\* attachObject: the lock_guard and asyncObjects.insert
attachObject_lock(c) ==
  /\ pc[c] = "attach_lock"
  /\ mutex[arg[c][1]] = {}
  /\ mutex' = [mutex EXCEPT ![arg[c][1]] = {c}]
  /\ object' = [object EXCEPT !.asyncObjects[arg[c][1]] = @ \cup {arg[c][2]}]
  /\ Goto(c, "attach_set")
  /\ UNCHANGED <<arg, seen, uunused>>

\* attachObject: asyncObject.setAsyncThread(this) and the return
attachObject_set(c) ==
  /\ pc[c] = "attach_set"
  /\ object' = [object EXCEPT !.asyncThread[arg[c][2]] = arg[c][1]]
  /\ mutex' = [mutex EXCEPT ![arg[c][1]] = {}]
  /\ Goto(c, "idle")
  /\ NoCall(c)
  /\ UNCHANGED uunused

\* a call of detachObject(asyncObject) on AsyncThread th
detachObject_call(c, th, o) ==
  /\ pc[c] = "idle"
  /\ arg' = [arg EXCEPT ![c] = <<th, o>>]
  /\ Goto(c, "detach_lock")
  /\ UNCHANGED <<object, mutex, seen, uunused>>

\* detachObject: the lock_guard, the find_if, and the erase if the object is found
detachObject_lock(c) ==
  /\ pc[c] = "detach_lock"
  /\ mutex[arg[c][1]] = {}
  /\ IF arg[c][2] \in object.asyncObjects[arg[c][1]]
     THEN /\ object' = [object EXCEPT !.asyncObjects[arg[c][1]] = @ \ {arg[c][2]}]
          /\ mutex' = [mutex EXCEPT ![arg[c][1]] = {c}]
          /\ Goto(c, "detach_set")
          /\ UNCHANGED <<arg, seen>>
     ELSE /\ Goto(c, "idle")
          /\ NoCall(c)
          /\ UNCHANGED <<object, mutex>>
  /\ UNCHANGED uunused

\* detachObject: asyncObject.setAsyncThread(nullptr) and the return
detachObject_set(c) ==
  /\ pc[c] = "detach_set"
  /\ object' = [object EXCEPT !.asyncThread[arg[c][2]] = 0]
  /\ mutex' = [mutex EXCEPT ![arg[c][1]] = {}]
  /\ Goto(c, "idle")
  /\ NoCall(c)
  /\ UNCHANGED uunused

\* the worker of th, while (true): the lock_guard of the iteration
timer_lock(th) ==
  /\ pc[Timer(th)] = "loop"
  /\ mutex[th] = {}
  /\ mutex' = [mutex EXCEPT ![th] = {Timer(th)}]
  /\ Goto(Timer(th), "callbacks")
  /\ UNCHANGED <<object, arg, seen, uunused>>

\* the worker of th: the for statement over asyncObjects, and the first check of
\* stopTimerFlag, which is not set
timer_callbacks(th) ==
  /\ pc[Timer(th)] = "callbacks"
  /\ Goto(Timer(th), "sleeping")
  /\ UNCHANGED <<object, mutex, arg, seen, uunused>>

\* the worker of th: sleep_for, the second check; the iteration ends and the
\* lock_guard releases the mutex
timer_sleep(th) ==
  /\ pc[Timer(th)] = "sleeping"
  /\ mutex' = [mutex EXCEPT ![th] = {}]
  /\ Goto(Timer(th), "loop")
  /\ UNCHANGED <<object, arg, seen, uunused>>

\* the AsyncThreads have been started, no object is attached
InitU ==
  /\ object = [asyncObjects |-> [th \in AsyncThreads |-> {}],
               asyncThread |-> [o \in AsyncObjects |-> 0]]
  /\ mutex = [th \in AsyncThreads |-> {}]
  /\ pc = [p \in UProcs |-> IF p \in Caller THEN "idle" ELSE "loop"]
  /\ arg = [c \in Caller |-> <<0, 0>>]
  /\ seen = [c \in Caller |-> 0]
  /\ ret = <<>> /\ fate = <<>>
  /\ head = <<>> /\ next = <<>> /\ message = <<>> /\ freed = {}
  /\ node = <<>> /\ front = <<>> /\ back = <<>> /\ held = <<>> /\ nsent = 0
  /\ producers = <<>> /\ instances = <<>> /\ objectSettings = <<>>
  /\ objVal = <<>> /\ objState = <<>>
  /\ widx = 0 /\ anyChange = FALSE /\ chg = <<>>
  /\ tickSubmitted = {} /\ builtNow = {} /\ lastSent = <<>>

CallerStep(c) ==
  \/ attach_detach_lock(c) \/ attach_detach_set(c)
  \/ attachObject_lock(c) \/ attachObject_set(c)
  \/ detachObject_lock(c) \/ detachObject_set(c)

TimerStep(th) == timer_lock(th) \/ timer_callbacks(th) \/ timer_sleep(th)

NextU ==
  \/ \E c \in Caller, th \in AsyncThreads, o \in AsyncObjects :
       attachObject_prev(c, th, o) \/ detachObject_call(c, th, o)
  \/ \E c \in Caller : CallerStep(c)
  \/ \E th \in AsyncThreads : TimerStep(th)

SpecU == InitU /\ [][NextU]_vars

\* the threads are scheduled: every worker goes on, and so does every call in
\* progress whenever it can take its next step
SpecUF ==
  /\ SpecU
  /\ \A th \in AsyncThreads : WF_vars(TimerStep(th))
  /\ \A c \in Caller : WF_vars(CallerStep(c))

\* ------------------- SpecV: attachObject and detachObject, earlier revision
\* The AsyncThread of lockfree/Async.hpp: attachObject and detachObject take the
\* mutex, the worker does not. fate[th] tells whether the worker of th is in its
\* for statement ("iterating"), and whether asyncObjects was inserted into or
\* erased from meanwhile ("raced"): the iteration of an unordered_set that
\* another thread modifies is undefined, it goes on or it faults.
vunused == <<head, next, message, freed, node, front, back, held, ret, nsent,
             producers, instances, objectSettings, objVal, objState, widx, anyChange,
             chg, tickSubmitted, builtNow, lastSent>>

\* the for statement over asyncObjects[th] after an insert or erase on th
Raced(th) == IF fate[th] = "iterating" THEN "raced" ELSE fate[th]

\* a call of attachObject(asyncObject) on AsyncThread th
old_attachObject(c, th, o) ==
  /\ pc[c] = "idle"
  /\ arg' = [arg EXCEPT ![c] = <<th, o>>]
  /\ Goto(c, "attach_lock")
  /\ UNCHANGED <<object, mutex, seen, fate, vunused>>

\* attachObject: the lock_guard and asyncObjects.insert(&asyncObject)
old_attachObject_insert(c) ==
  /\ pc[c] = "attach_lock"
  /\ mutex[arg[c][1]] = {}
  /\ mutex' = [mutex EXCEPT ![arg[c][1]] = {c}]
  /\ object' = [object EXCEPT !.asyncObjects[arg[c][1]] = @ \cup {arg[c][2]}]
  /\ fate' = [fate EXCEPT ![arg[c][1]] = Raced(arg[c][1])]
  /\ Goto(c, "attach_set")
  /\ UNCHANGED <<arg, seen, vunused>>

\* detachObject: the lock_guard and asyncObjects.erase(&asyncObject)
old_detachObject_erase(c) ==
  /\ pc[c] = "detach_lock"
  /\ mutex[arg[c][1]] = {}
  /\ mutex' = [mutex EXCEPT ![arg[c][1]] = {c}]
  /\ object' = [object EXCEPT !.asyncObjects[arg[c][1]] = @ \ {arg[c][2]}]
  /\ fate' = [fate EXCEPT ![arg[c][1]] = Raced(arg[c][1])]
  /\ Goto(c, "detach_set")
  /\ UNCHANGED <<arg, seen, vunused>>

\* the worker of th, while (true): the for statement over asyncObjects begins
old_timer_for(th) ==
  /\ pc[Timer(th)] = "loop"
  /\ fate' = [fate EXCEPT ![th] = "iterating"]
  /\ Goto(Timer(th), "callbacks")
  /\ UNCHANGED <<object, mutex, arg, seen, vunused>>

\* the worker of th: the for statement ends, the first check of stopTimerFlag
old_timer_callbacks(th) ==
  /\ pc[Timer(th)] = "callbacks"
  /\ fate' = [fate EXCEPT ![th] = "none"]
  /\ Goto(Timer(th), "sleeping")
  /\ UNCHANGED <<object, mutex, arg, seen, vunused>>

\* the worker of th: the for statement over a set that was modified faults
old_timer_callbacks_fault(th) ==
  /\ pc[Timer(th)] = "callbacks"
  /\ fate[th] = "raced"
  /\ pc' = [p \in DOMAIN pc |-> "crashed"]
  /\ UNCHANGED <<object, mutex, arg, seen, fate, vunused>>

\* the worker of th: sleep_for, the second check of stopTimerFlag
old_timer_sleep(th) ==
  /\ pc[Timer(th)] = "sleeping"
  /\ Goto(Timer(th), "loop")
  /\ UNCHANGED <<object, mutex, arg, seen, fate, vunused>>

\* the AsyncThreads have been started, no object is attached
InitV ==
  /\ object = [asyncObjects |-> [th \in AsyncThreads |-> {}],
               asyncThread |-> [o \in AsyncObjects |-> 0]]
  /\ mutex = [th \in AsyncThreads |-> {}]
  /\ pc = [p \in UProcs |-> IF p \in Caller THEN "idle" ELSE "loop"]
  /\ arg = [c \in Caller |-> <<0, 0>>]
  /\ seen = [c \in Caller |-> 0]
  /\ fate = [th \in AsyncThreads |-> "none"]
  /\ ret = <<>>
  /\ head = <<>> /\ next = <<>> /\ message = <<>> /\ freed = {}
  /\ node = <<>> /\ front = <<>> /\ back = <<>> /\ held = <<>> /\ nsent = 0
  /\ producers = <<>> /\ instances = <<>> /\ objectSettings = <<>>
  /\ objVal = <<>> /\ objState = <<>>
  /\ widx = 0 /\ anyChange = FALSE /\ chg = <<>>
  /\ tickSubmitted = {} /\ builtNow = {} /\ lastSent = <<>>

NextV ==
  \/ \E c \in Caller, th \in AsyncThreads, o \in AsyncObjects :
       old_attachObject(c, th, o) \/ detachObject_call(c, th, o)
  \/ \E c \in Caller :
       \/ old_attachObject_insert(c) \/ attachObject_set(c)
       \/ old_detachObject_erase(c) \/ detachObject_set(c)
  \/ \E th \in AsyncThreads :
       \/ old_timer_for(th) \/ old_timer_callbacks(th)
       \/ old_timer_callbacks_fault(th) \/ old_timer_sleep(th)

SpecV == InitV /\ [][NextV]_vars

\* what update would leave in the Instance: the pending snapshot, or else its Object
Latest(i) ==
  IF head[Lifo(To(i))] # 0 THEN message[head[Lifo(To(i))]] ELSE object[i]

AfterTick == {"tc_unlock", "check_stop", "sleeping", "idle", "stopped"}

\* C12: when a tick that began after the submissions of a (living) Producer had
\* returned completes, Settings contains all of them; and whenever the worker is
\* not in the middle of a tick, so also after stop(), an Instance that calls update
\* holds an Object built from Settings as they are.
C12_AllAppliedAfterFinalTick ==
  /\ pc[W] = "tc_unlock"
       => \A c \in tickSubmitted :
            pc[PP(ChangeOwner(c))] \in {"idle", "sub_push_load", "sub_push_cas"}
              => c \in Applied
  /\ pc[W] \in AfterTick
       => \A i \in Range(instances) : objVal[Latest(i)] = objectSettings

\* stop() has returned, its last tick began after every submission of the Producer
\* had returned, and an Instance has then updated to the Object with all of them
C12_Witness ==
  \E i \in InstanceIds :
    /\ pc[S] = "joined"
    /\ \A c \in ChangesOf(FirstProducer) : c \in Applied
    /\ ret[CP(i)] = "true" /\ pc[CP(i)] = "idle"
    /\ lastSent[i] = object[i]
    /\ Range(objVal[object[i]]) = ChangesOf(FirstProducer)

\* stop() has returned and a change whose submission had returned was never applied:
\* the loop returned from its sleep without a further tick
C12_StoppedWithoutFinalTick ==
  /\ pc[S] = "joined"
  /\ pc[PP(FirstProducer)] = "idle"
  /\ \E c \in ChangesOf(FirstProducer) : chg[c] = "submitted" /\ c \notin Applied

\* the nodes of the two Messengers of the RealtimeObject whose unique_ptr owns Object o
Owners(o) == {n \in Allocated \ freed : message[n] = o}

\* the nodes that are in one of the four stacks of the RealtimeObject
Stacked == UNION {Range(Chain(head[s])) : s \in RStacks}

BetweenOperations == \A p \in RProcs : pc[p] = "idle"

\* C13: between the operations of a RealtimeObject, currentObjectStorage owns one
\* living Object, no node owns that one, every other living Object is owned by
\* exactly one node, which is in a stack of one of the two Messengers, and a
\* destroyed Object has no owner and was destroyed once.
C13_OneCurrentOthersInNodes ==
  BetweenOperations =>
    /\ currentObjectStorage \in 1..nobj
    /\ \A o \in 1..nobj :
         /\ objState[o] \in {"alive", "destroyed"}
         /\ o = currentObjectStorage => objState[o] = "alive" /\ Owners(o) = {}
         /\ objState[o] = "destroyed" => Owners(o) = {}
         /\ o # currentObjectStorage /\ objState[o] = "alive"
              => Cardinality(Owners(o)) = 1 /\ Owners(o) \subseteq Stacked

\* between operations: a version was received, one Object waits in a node of
\* messengerForNewObjects and another in a node of messengerForOldObjects
C13_Witness ==
  /\ BetweenOperations
  /\ currentObjectStorage # 1
  /\ \E n \in Range(Chain(head[Lifo(messengerForNewObjects)])) : message[n] # 0
  /\ \E n \in Range(Chain(head[Lifo(messengerForOldObjects)])) : message[n] # 0

\* the Object of the last set that has returned (the constructor's, if none has)
LatestSet ==
  CHOOSE o \in 1..nobj :
    /\ fate[o] # "unset"
    /\ \A q \in 1..nobj : fate[q] # "unset" => q <= o

\* C14: the Object a getFromRealtimeThread is going to return is the one of the
\* last set that returned before it popped messengerForNewObjects, and the Object
\* that was current before a getFromRealtimeThread is destroyed, by a non-realtime
\* thread, once a set that began after that call has popped messengerForOldObjects.
C14_GetReturnsLatestSet ==
  /\ [][pc[RT] = "idle" /\ pc'[RT] = "get_rec_load" => held'[RT] = LatestSet]_vars
  /\ [][pc[RT] = "idle" /\ pc'[RT] = "idle" /\ head[Lifo(messengerForNewObjects)] = 0
          => currentObjectStorage = LatestSet]_vars
  /\ [][pc[RT] = "get_store" /\ pc'[RT] = "idle" => ret'[RT] = held[RT]]_vars
  /\ [](\A o \in 1..nobj : fate[o] = "due" => objState[o] = "destroyed")
  /\ [][\A o \in 1..nobj : objState'[o] # objState[o] => pc[RT] = pc'[RT]]_vars

\* set has returned twice; the realtime thread got the Object of the first set
\* between them, and the Object of the constructor was destroyed by the second
C14_Witness ==
  /\ pc[FirstWriter] = "idle" /\ pc[RT] = "idle"
  /\ currentObjectStorage = 2 /\ ret[RT] = currentObjectStorage
  /\ fate[1] = "due" /\ objState[1] = "destroyed"
  /\ fate[3] = "set"

\* C15: with one realtime and one non-realtime thread, currentObjectPtr designates
\* an Object that has not been destroyed, and so does the pointer a non-realtime
\* thread got from getFromNonRealtimeThread and is about to copy.
C15_PublishedPointerAlive ==
  /\ objState[currentObjectPtr] = "alive"
  /\ pc[FirstWriter] = "chg_copy" => objState[held[FirstWriter]] = "alive"

\* the non-realtime threads that are inside set, changeFromNonRealtimeThread or
\* changeFromNonRealtimeThreadIf
Writing == {w \in Writer : pc[w] \notin {"idle", "crashed"}}

\* no step destroys the Object a non-realtime thread is about to copy
NoDestructionUnderCopy ==
  [][\A w \in Writer :
       pc[w] = "chg_copy" /\ objState[held[w]] = "alive"
         => objState'[held[w]] = "alive"]_vars

\* C16: at most one non-realtime thread is inside set, changeFromNonRealtimeThread
\* or changeFromNonRealtimeThreadIf at a time, and no step destroys the Object
\* that a non-realtime thread has read the address of and is about to copy.
C16_WritersSerialized ==
  /\ [](Cardinality(Writing) <= 1)
  /\ NoDestructionUnderCopy

\* the Objects a getFromRealtimeThread that has returned displaced or skipped
Superseded == {o \in 1..nobj : fate[o] = "displaced" \/ (fate[o] = "skipped" /\ pc[RT] = "idle")}

\* a set that began after the getFromRealtimeThread which skipped Object o had
\* returned has returned too
SkippedBeforeLastSet(o) == fate[o] = "skipped, due" /\ pc[FirstWriter] = "idle"

\* C17: once a getFromRealtimeThread that found several pending versions has
\* returned, the Object it displaced and every version it skipped are, until
\* they are destroyed, in nodes of the lifo of messengerForOldObjects, and they
\* are destroyed when a set that began afterwards has returned.
C17_SkippedVersionsThroughOld ==
  /\ \A o \in Superseded :
       objState[o] = "alive"
         => /\ Owners(o) # {}
            /\ Owners(o) \subseteq Range(Chain(head[Lifo(messengerForOldObjects)]))
  /\ \A o \in 1..nobj :
       fate[o] = "due" \/ SkippedBeforeLastSet(o) => objState[o] = "destroyed"

\* a skipped version is alive after the next set
C17_SkippedOutlivesSet ==
  \E o \in 1..nobj : SkippedBeforeLastSet(o) /\ objState[o] = "alive"

\* C18: with Prealloc >= 2 nodes, one realtime thread and one non-realtime
\* thread, the send of getFromRealtimeThread finds a node in the storage of
\* messengerForOldObjects, and the nodes of messengerForOldObjects stay the
\* preallocated ones.
C18_GetNeverAllocates ==
  /\ pc[RT] = "get_send" => head[Storage(messengerForOldObjects)] # 0
  /\ \A n \in Allocated :
        n \in Range(Chain(head[Lifo(messengerForOldObjects)]))
              \cup Range(Chain(head[Storage(messengerForOldObjects)]))
          => n \in 1..(2 * Prealloc)

\* the free nodes that sendIfNodeAvailable calls of threads other than t have popped
\* with the storage and are pushing back
PoppedByOtherSenders(t) ==
  UNION {Range(Path(front[u], back[u])) :
           u \in {v \in Thread \ {t} : pc[v] \in {"sina_pm_load", "sina_pm_cas"}}}

\* the nodes that are neither live, nor kept by a receiver, nor deleted
Unused == Allocated \ (Live(M) \cup UNION {Range(Chain(held[u])) : u \in Thread} \cup freed)

\* C19 as stated: sendIfNodeAvailable returns false only when there is no free
\* node, neither in the storage nor among those a concurrent sendIfNodeAvailable
\* popped with it: concurrent calls on a storage with a node for each all succeed.
C19_Original ==
  [][\A t \in Thread :
       sendIfNodeAvailable(t) /\ ret'[t] = "false"
         => Free(M) = {} /\ PoppedByOtherSenders(t) = {}]_vars

\* C19: sendIfNodeAvailable returns false only when the storage is empty at its
\* pop, which it is also while another sender holds the nodes it popped; when no
\* other thread is inside an operation it returns false only if no node is unused.
\* It returns true only with the node that was the head of the storage.
C19_FalseOnlyWhenStorageEmpty ==
  [][\A t \in Thread :
       /\ sendIfNodeAvailable(t) /\ ret'[t] = "false"
            => /\ head[Storage(M)] = 0
               /\ (\A u \in Thread \ {t} : pc[u] = "idle") => Unused = {}
       /\ sendIfNodeAvailable(t) /\ pc'[t] # "idle"
            => /\ head[Storage(M)] # 0 /\ node'[t] = head[Storage(M)]
               /\ ret'[t] = "true" /\ head'[Storage(M)] = 0]_vars

\* a sendIfNodeAvailable has returned false while the only message so far is being
\* sent by a sendIfNodeAvailable that holds the rest of the storage
C19_Witness ==
  \E t, u \in Thread :
    /\ nsent = 1 /\ ret[t] = "false" /\ pc[t] = "idle"
    /\ pc[u] \in {"sina_pm_load", "sina_pm_cas"} /\ front[u] # 0

\* the nodes the thread has sent and not recycled: in the lifo, or in the chain
\* it received and keeps
InUse == Live(M) \cup Range(Chain(held[FirstThread]))

\* C20: on a Messenger with k preallocated nodes used by one thread,
\* sendIfNodeAvailable returns true when fewer than k nodes are in use and false
\* when all k are, a call that returned true adds its node to the lifo, and
\* recycle returns every node of the received chain to the storage: the first k
\* calls succeed, the next fails, and after receiveAllNodes and recycle k calls
\* succeed again.
C20_CapacityIsK ==
  [][/\ sendIfNodeAvailable_value(FirstThread) /\ ret'[FirstThread] = "true"
          => Cardinality(InUse) < nalloc
     /\ sendIfNodeAvailable_value(FirstThread) /\ pc'[FirstThread] = "idle"
          => Cardinality(InUse) = nalloc /\ ret'[FirstThread] = "false"
     /\ sina_push_cas(FirstThread)
          => /\ Live(M)' = Live(M) \cup {node[FirstThread]}
             /\ Cardinality(Live(M)') = Cardinality(Live(M)) + 1
             /\ Free(M)' = Allocated \ InUse'
     /\ rec_pm_cas(FirstThread)
          => /\ Free(M)' = Free(M) \cup Range(Path(front[FirstThread], back[FirstThread]))
             /\ Free(M)' = Allocated \ InUse']_vars

\* k = 2: both nodes are in the lifo in the order that only a second round of
\* sends gives them, and the last call returned true
C20_Witness ==
  /\ nalloc = 2 /\ pc[FirstThread] = "idle" /\ ret[FirstThread] = "true"
  /\ head[Lifo(M)] = 1 /\ next[1] = 2 /\ head[Storage(M)] = 0

\* C21: a sendIfNodeAvailable that returns false found the storage empty and
\* changes nothing: the lifo, the storage, the links and payloads of the nodes, the
\* set of allocated nodes and what every thread holds are as before, and no node is
\* allocated or deleted.
C21_FailedSendChangesNothing ==
  [][\A t \in Thread :
       sendIfNodeAvailable(t) /\ ret'[t] = "false"
         => /\ head[Storage(M)] = 0
            /\ head' = head /\ next' = next /\ message' = message
            /\ Allocated' = Allocated /\ freed' = freed
            /\ Live(M)' = Live(M) /\ Free(M)' = Free(M)
            /\ node' = node /\ held' = held /\ nsent' = nsent]_vars

\* a sendIfNodeAvailable has returned false to a thread that sent nothing, while
\* the one message sent so far is in the lifo and the storage is empty
C21_Witness ==
  \E t, u \in Thread :
    /\ t # u /\ nsent = 1 /\ pc[t] = "idle" /\ pc[u] = "idle"
    /\ ret[t] = "false" /\ ret[u] = "true"
    /\ head[Lifo(M)] # 0 /\ head[Storage(M)] = 0

\* every message sent so far is in the lifo, and the thread is between operations
AllSentLive ==
  /\ nsent >= 1 /\ pc[FirstThread] = "idle"
  /\ \A m \in 1..nsent : fate[m] = "sent"

\* one receive of the last message has taken all the nsent messages, each in a node
\* of its own, and nothing was sent since; there is no other node
Coalesced ==
  /\ nsent >= 1 /\ pc[FirstThread] = "idle"
  /\ nalloc = nsent /\ freed = {}
  /\ fate[nsent] = "received"
  /\ \A m \in 1..(nsent - 1) : fate[m] = "coalesced"

\* C22 as stated: after n sends and a receive of the last message, by
\* receiveLastMessage or by receiveLastNode, the lifo is empty and the storage holds
\* n nodes.
C22_Original ==
  Coalesced /\ ret[FirstThread] \in {"message", "node"}
    => head[Lifo(M)] = 0 /\ Cardinality(Free(M)) = nsent

\* C22: after n >= 1 sends by one thread with no receive in between, a receive of
\* the last message returns the message sent last and leaves the lifo empty, so that
\* a receiveAllNodes that follows returns null. After receiveLastMessage the storage
\* holds the n nodes; after receiveLastNode it holds the other n - 1, and the caller
\* holds the node of the last message, detached, until it recycles it.
C22_ReceiveLastCoalesces ==
  /\ [](Coalesced /\ ret[FirstThread] = "message"
          => /\ head[Lifo(M)] = 0 /\ held[FirstThread] = 0
             /\ Cardinality(Free(M)) = nsent /\ Free(M) = Allocated)
  /\ [](Coalesced /\ ret[FirstThread] = "node"
          => /\ head[Lifo(M)] = 0 /\ held[FirstThread] # 0
             /\ message[held[FirstThread]] = nsent /\ next[held[FirstThread]] = 0
             /\ Cardinality(Free(M)) = nsent - 1
             /\ Free(M) = Allocated \ {held[FirstThread]})
  /\ [][/\ (receiveLastMessage(FirstThread) \/ receiveLastNode(FirstThread)) /\ AllSentLive
            => /\ message[head[Lifo(M)]] = nsent /\ count(head[Lifo(M)]) = nsent
               /\ fate'[nsent] = "received" /\ head'[Lifo(M)] = 0
        /\ receiveAllNodes(FirstThread) /\ Coalesced /\ ret[FirstThread] = "message"
            => ret'[FirstThread] = "nullptr" /\ held'[FirstThread] = 0]_vars

\* receiveLastNode has returned the second of two messages: one node is in the
\* storage and the caller holds the other
C22_Witness ==
  /\ Coalesced /\ nsent = 2 /\ ret[FirstThread] = "node"
  /\ held[FirstThread] # 0 /\ Cardinality(Free(M)) = 1

\* the thread holds the chain of a receiveAllNodes that took all the nsent messages
AllReceived ==
  /\ nsent >= 1 /\ pc[FirstThread] = "idle"
  /\ count(held[FirstThread]) = nsent
  /\ \A m \in 1..nsent : fate[m] = "received"

\* C23: when one thread has sent messages 1..n with no receive in between,
\* receiveAllNodes returns the chain of the n nodes with the last message at its
\* head and the first at its end, and handleMessageStack calls its action on
\* 1, 2, .., n in that order, once each, and leaves the chain and its next links as
\* they were, so that recycle still pushes the whole chain.
C23_HandledInSendOrder ==
  [][/\ receiveAllNodes(FirstThread) /\ AllSentLive
        => /\ held'[FirstThread] = head[Lifo(M)] /\ message[held'[FirstThread]] = nsent
           /\ Payloads(held'[FirstThread]) = [i \in 1..nsent |-> nsent + 1 - i]
           /\ AllReceived'
     /\ callHandleMessageStack(FirstThread) /\ AllReceived
        => /\ handleMessageStack(held[FirstThread]) = [i \in 1..nsent |-> i]
           /\ \A m \in 1..nsent : fate'[m] = "handled"
           /\ next' = next /\ message' = message /\ held' = held
           /\ Chain(held[FirstThread])' = Chain(held[FirstThread])
     /\ recycle(FirstThread) /\ ret[FirstThread] = "handled"
        => Path(front'[FirstThread], back'[FirstThread]) = Chain(held[FirstThread])]_vars

\* the two messages of a chain of two nodes have been handled, and the chain is
\* being recycled whole
C23_Witness ==
  /\ nsent = 2 /\ fate[1] = "handled" /\ fate[2] = "handled"
  /\ pc[FirstThread] = "rec_pm_load" /\ message[front[FirstThread]] = 2
  /\ Len(Path(front[FirstThread], back[FirstThread])) = 2

\* the nodes the Messenger owns or has lent to the thread: in the lifo, in the
\* storage, or held by the thread
Owned == Live(M) \cup Free(M) \cup Held(FirstThread)

\* C24: receiveAllNodes followed by recycle, and discardAllMessages which is the
\* two in one call, move every node of the lifo to the storage: the pop empties the
\* lifo and hands over its whole chain, recycle passes the whole chain to
\* push_multiple, which adds exactly these nodes to the storage; no step allocates
\* or deletes a node or changes the set of nodes owned. On an empty lifo the pop
\* returns null and nothing at all is changed.
C24_RecycleReceiveAllConserves ==
  [][/\ receiveAllNodes(FirstThread)
        => /\ held'[FirstThread] = head[Lifo(M)] /\ head'[Lifo(M)] = 0
           /\ Free(M)' = Free(M) /\ Owned' = Owned
           /\ Allocated' = Allocated /\ freed' = freed
     /\ recycle(FirstThread)
        => /\ Path(front'[FirstThread], back'[FirstThread]) = Chain(held[FirstThread])
           /\ Live(M)' = Live(M) /\ Owned' = Owned
           /\ Allocated' = Allocated /\ freed' = freed
     /\ discardAllMessages(FirstThread)
        => /\ head'[Lifo(M)] = 0 /\ Owned' = Owned
           /\ Allocated' = Allocated /\ freed' = freed
           /\ Path(front'[FirstThread], back'[FirstThread]) = Chain(head[Lifo(M)])
           /\ head[Lifo(M)] = 0
                => UNCHANGED <<head, next, message, freed, pc, node, front, back, held>>
     /\ rec_pm_load(FirstThread)
        => /\ Path(front'[FirstThread], back'[FirstThread])
                = Path(front[FirstThread], back[FirstThread])
           /\ Live(M)' = Live(M) /\ Free(M)' = Free(M)
           /\ Allocated' = Allocated /\ freed' = freed
     /\ rec_pm_cas(FirstThread)
        => /\ pc'[FirstThread] = "idle"
           /\ Free(M)' = Free(M) \cup Range(Path(front[FirstThread], back[FirstThread]))
           /\ Cardinality(Free(M)')
                = Cardinality(Free(M)) + Len(Path(front[FirstThread], back[FirstThread]))
           /\ Live(M)' = Live(M) /\ Owned' = Owned
           /\ Allocated' = Allocated /\ freed' = freed]_vars

\* two messages were sent and discarded: their two nodes are in the storage and the
\* lifo is empty
C24_Witness ==
  /\ nsent = 2 /\ fate[1] = "discarded" /\ fate[2] = "discarded"
  /\ pc[FirstThread] = "idle" /\ head[Lifo(M)] = 0
  /\ Cardinality(Free(M)) = 2 /\ freed = {}

\* C25: the Object of an Instance changes only in an update that returns true:
\* every other step (of the worker, of a Producer, an update that returns false,
\* the rest of a successful update) leaves the Instance with the same Object,
\* alive and with the value it was constructed with, so get() returns the same.
C25_ObjectChangesOnlyAtUpdate ==
  [][\A i \in InstanceIds :
       i \in DOMAIN object /\ object[i] # 0
         => \/ /\ update(i) /\ ret'[CP(i)] = "true"
               /\ object'[i] # object[i] /\ object'[i] = message[head[Lifo(To(i))]]
            \/ /\ object'[i] = object[i]
               /\ objState'[object[i]] = "alive"
               /\ objVal'[object[i]] = objVal[object[i]]]_vars

\* the Instance holds the snapshot last sent to it, and an update called after the
\* one that installed it has returned false
C25_Witness ==
  /\ 1 \in DOMAIN object /\ object[1] # 0
  /\ 1 \in DOMAIN lastSent /\ lastSent[1] = object[1]
  /\ pc[CP(1)] = "idle" /\ ret[CP(1)] = "false"

\* C26: update returns true exactly when toInstance held a snapshot, which it then
\* installs, leaving the previous Object in the node it sends back; it returns false
\* exactly when toInstance was empty, and then changes neither the Object nor any
\* stack or node. Every update leaves toInstance empty and only the worker's send
\* fills it again: an update called after another, with no send of the worker in
\* between, returns false.
C26_UpdateTrueIffInstalled ==
  [][\A i \in InstanceIds :
       /\ update(i) /\ head[Lifo(To(i))] # 0
            => /\ ret'[CP(i)] = "true"
               /\ object'[i] = message[head[Lifo(To(i))]] /\ object'[i] # object[i]
               /\ node'[CP(i)] = head[Lifo(To(i))] /\ message'[node'[CP(i)]] = object[i]
       /\ update(i) /\ head[Lifo(To(i))] = 0
            => /\ ret'[CP(i)] = "false"
               /\ UNCHANGED <<object, head, next, message, node, pc, objState>>
       /\ update(i) => head'[Lifo(To(i))] = 0
       /\ i \in DOMAIN object /\ head[Lifo(To(i))] = 0 /\ head'[Lifo(To(i))] # 0
            => tc_push_cas]_vars

\* the Instance installed the snapshot last sent to it, the node it sent back is
\* still in fromInstance, and the update called next has returned false
C26_Witness ==
  /\ 1 \in DOMAIN object /\ 1 \in DOMAIN lastSent
  /\ lastSent[1] # 0 /\ object[1] = lastSent[1]
  /\ head[Lifo(To(1))] = 0 /\ head[Lifo(From(1))] # 0
  /\ pc[CP(1)] = "idle" /\ ret[CP(1)] = "false" /\ pc[W] = "idle"

\* C27: while the realtime thread is between calls, the pointer its last
\* getFromRealtimeThread returned is that of the current Object, which is alive. A
\* call leaves the lifo of messengerForNewObjects empty and only the send that
\* completes a set fills it; a call that finds it empty returns the same pointer
\* again and changes neither the current Object, the published pointer, a Messenger
\* nor any Object.
C27_SecondGetReturnsSame ==
  /\ [](pc[RT] = "idle"
          => /\ currentObjectStorage \in 1..nobj
             /\ objState[currentObjectStorage] = "alive"
             /\ currentObjectPtr = currentObjectStorage)
  /\ [][/\ pc[RT] = "get_store" /\ pc'[RT] = "idle"
            => ToString(ret'[RT]) = ToString(currentObjectStorage')
        /\ pc[RT] = "idle" /\ pc'[RT] = "idle"
             /\ ToString(ret'[RT]) # ToString(ret[RT])
            => /\ head[Lifo(messengerForNewObjects)] = 0
               /\ ToString(ret'[RT]) = ToString(currentObjectStorage)
               /\ UNCHANGED <<object, head, next, message, freed, objVal, objState, pc,
                              held, node, front, back>>
        /\ pc[RT] = "idle" /\ pc'[RT] # "idle"
            => \/ head[Lifo(messengerForNewObjects)] # 0
                    /\ head'[Lifo(messengerForNewObjects)] = 0
               \/ pc'[RT] = "crashed"
        /\ head[Lifo(messengerForNewObjects)] = 0 /\ head'[Lifo(messengerForNewObjects)] # 0
            => \E w \in Writer : set_push_cas(w) /\ pc'[w] = "idle"
        /\ object' # object => pc[RT] \in {"get_send", "get_store"}]_vars

\* the last call of the realtime thread returned the Object of a set, which is
\* current, and no set has completed since: messengerForNewObjects is empty, and a
\* call made in this state returns the same pointer and changes nothing
C27_Witness ==
  /\ pc[RT] = "idle" /\ currentObjectStorage = 2 /\ ret[RT] = currentObjectStorage
  /\ head[Lifo(messengerForNewObjects)] = 0
  /\ head[Storage(messengerForNewObjects)] # 0
  /\ fate[2] = "current" /\ nobj = 2

\* the worker is executing the callbacks of an iteration
InTick == pc[W] = "callbacks"

\* C28: the worker returns only at one of its two checks, with stopTimerFlag set
\* and stop() in progress; a check that finds the flag set returns; an iteration
\* that began calls timerCallback of every attached object before it checks; stop()
\* returns only after the join, when there is no worker, and none exists from then
\* until start() is called again; and a stop() that was called returns.
C28_StopJoinsAfterTick ==
  /\ [][/\ pc'[W] = "returned" /\ pc[W] # "returned"
            => /\ pc[W] \in {"check_stop", "sleeping"} /\ stopTimerFlagAtomic
               /\ pc[Owner] \in {"stop_joinable", "stop_join"}
        /\ (at_loop_check_stop \/ at_loop_sleep) /\ stopTimerFlagAtomic
            => pc'[W] = "returned"
        /\ InTick /\ (pc'[W] # pc[W] \/ widx' # widx)
            => \/ InTick' /\ widx' = widx + 1 /\ widx \in asyncObjects
               \/ pc'[W] = "check_stop" /\ widx = Cardinality(asyncObjects) + 1
        /\ at_stop_isRunningFlag /\ fate.stop # "not joinable"
            => fate.stop = "joined" /\ pc[W] = "none" /\ ~joinable]_vars
  /\ [](pc[Owner] = "idle" /\ fate.last = "stop"
          => pc[W] = "none" /\ ~joinable /\ ~isRunningFlag)
  /\ (pc[Owner] = "stop_joinable" ~> (pc[Owner] = "idle" /\ fate.last = "stop"))

\* stop() has joined a worker that iterated over two attached objects, and returned
C28_Witness ==
  /\ asyncObjects = {1, 2} /\ pc[Owner] = "idle"
  /\ fate.last = "stop" /\ fate.stop = "joined" /\ pc[W] = "none"

\* stop() was called while the worker was in the middle of its callbacks
C28_StopDuringTick ==
  /\ asyncObjects = {1, 2} /\ pc[Owner] = "stop_join" /\ InTick /\ widx = 2

C34_EmptyReceiveChangesNothing ==
  [][\A t \in Thread :
       /\ receiveAllNodes(t) /\ head[Lifo(M)] = 0
            => /\ ret'[t] = "nullptr" /\ held'[t] = 0
               /\ UNCHANGED <<head, next, message, freed, pc, node, front, back, fate>>
       /\ receiveLastNode(t) /\ head[Lifo(M)] = 0
            => /\ ret'[t] = "nullptr"
               /\ UNCHANGED <<head, next, message, freed, pc, node, front, back, held, fate>>
       /\ receiveLastMessage(t) /\ head[Lifo(M)] = 0
            => /\ ret'[t] = "nullopt"
               /\ UNCHANGED <<head, next, message, freed, pc, node, front, back, held, fate>>
       /\ receiveLastNode(t) /\ ret'[t] = "nullptr"
            => head[Lifo(M)] = 0 /\ head' = head
       /\ receiveLastMessage(t) /\ ret'[t] = "nullopt"
            => head[Lifo(M)] = 0 /\ head' = head]_vars

\* receiveLastMessage has returned nullopt to one thread and a receive of nodes
\* null to the other, while the storage holds nodes and the lifo is empty
C34_Witness ==
  \E t, u \in Thread :
    /\ ret[t] = "nullopt" /\ ret[u] = "nullptr" /\ pc[t] = "idle" /\ pc[u] = "idle"
    /\ head[Lifo(M)] = 0 /\ Cardinality(Free(M)) = 2 /\ held[u] = 0

\* C31: stop() called when the AsyncThread is not running (never started, or the
\* last completed call was a stop()) changes nothing that can be observed: the
\* running flag stays false, nothing is joined (the timer is not joinable and the
\* call never waits in join), the attached set, the worker and the mutex are left
\* alone; the start() after it spawns a worker, that worker runs a tick, and it
\* returns only when a later stop() asks for it.
NoOpStop ==
  /\ pc[Owner] \in {"stop_joinable", "stop_join", "stop_isRunningFlag"}
  /\ fate.last \in {"none", "stop"}

C31_StopWhenNotRunningIsNoOp ==
  /\ [](NoOpStop => /\ ~object.isRunningFlag /\ object.timer = "not joinable"
                     /\ pc[W] = "none" /\ pc[Owner] # "stop_join"
                     /\ fate.stop \in {"stopping", "not joinable"})
  /\ [][NoOpStop \/ NoOpStop'
          => /\ object'.asyncObjects = object.asyncObjects
             /\ object'.timer = object.timer
             /\ object'.isRunningFlag = object.isRunningFlag
             /\ pc'[W] = pc[W] /\ mutex' = mutex]_vars
  /\ [][at_start_thread /\ fate.stop = "not joinable"
          => pc'[W] = "loop" /\ object'.timer = "joinable"]_vars
  /\ [](pc[W] = "returned" => fate.stop \in {"stopping", "joining"})
  /\ (pc[W] = "loop" ~> pc[W] = "callbacks")

\* a stop() found nothing to join, the start() after it has returned, and the
\* worker has run the callbacks of a tick and goes on
C31_Witness ==
  /\ fate.stop = "not joinable" /\ fate.last = "start"
  /\ pc[Owner] = "idle" /\ pc[W] = "sleeping"
  /\ object.asyncObjects # {} /\ ~object.stopTimerFlag

\* C36: on each stack of the Messenger, under every interleaving of the pushes,
\* chain pushes and pops of the threads: the value a push compares with is the
\* head it read; while the push waits between its read and its compare-and-swap
\* the head moves away from that value only by a step of another thread, which is
\* a pop_all (the head becomes null) or the winning compare-and-swap of that
\* thread's push; the compare-and-swap fails, and the push reads again, only if
\* the head differs from the value read, and then it changes nothing; if the head
\* equals the value read it succeeds at once, and afterwards the stack is the
\* pushed node or chain followed by exactly the chain that was the stack just
\* before, whatever happened to the head between the read and the swap.
AtPushCas(p) == pc[p] \in {"send_push_cas", "sina_push_cas", "sn_push_cas"}
AtChainCas(p) ==
  pc[p] \in {"send_pm_cas", "sina_pm_cas", "rlm_pm_cas", "rln_pm_cas", "rec_pm_cas"}
AtCas(p) == AtPushCas(p) \/ AtChainCas(p)
CasStack(p) == IF AtPushCas(p) THEN Lifo(M) ELSE Storage(M)
Pushed(p) == IF AtPushCas(p) THEN <<node[p]>> ELSE Path(front[p], back[p])
CasTaken(p) == AtCas(p) /\ pc'[p] # pc[p]
ReadOf ==
  [send_push_cas |-> "send_push_load", sina_push_cas |-> "sina_push_load",
   sn_push_cas |-> "sn_push_load", send_pm_cas |-> "send_pm_load",
   sina_pm_cas |-> "sina_pm_load", rlm_pm_cas |-> "rlm_pm_load",
   rln_pm_cas |-> "rln_pm_load", rec_pm_cas |-> "rec_pm_load"]
CasRetried(p) == CasTaken(p) /\ pc'[p] = ReadOf[pc[p]]
PopAllBy(u) ==
  \/ send(u) \/ sendIfNodeAvailable(u) \/ receiveLastMessage(u) \/ receiveLastNode(u)
  \/ receiveAllNodes(u) \/ discardAllMessages(u) \/ freeStorage(u)
  \/ discardAndFreeAllMessages(u)

C36_PushFailsOnlyOnInterference ==
  [][\A p \in Thread :
       /\ (~AtCas(p) \/ CasRetried(p)) /\ AtCas(p)' => seen'[p] = head'[CasStack(p)']
       /\ AtCas(p) /\ ~CasTaken(p) /\ head'[CasStack(p)] # head[CasStack(p)]
            => \E u \in Thread \ {p} :
                 \/ PopAllBy(u) /\ head'[CasStack(p)] = 0
                 \/ /\ CasTaken(u) /\ ~CasRetried(u) /\ CasStack(u) = CasStack(p)
                    /\ head'[CasStack(p)] = Pushed(u)[1]
       /\ CasRetried(p) => head[CasStack(p)] # seen[p] /\ UNCHANGED <<head, next, message>>
       /\ CasTaken(p) /\ head[CasStack(p)] = seen[p] => ~CasRetried(p)
       /\ CasTaken(p) /\ ~CasRetried(p)
            => \A s \in DOMAIN head :
                 IF s = CasStack(p)
                 THEN Chain(head[s])' = Pushed(p) \o Chain(head[s])
                 ELSE head'[s] = head[s]]_vars

\* a push of a message is about to read the head again after a failed
\* compare-and-swap: its node is still linked to the head it had read, and the
\* lifo has another head now
C36_Witness ==
  \E p \in Thread :
    /\ pc[p] \in {"send_push_load", "sina_push_load", "sn_push_load"}
    /\ next[node[p]] # 0
    /\ head[Lifo(M)] # next[node[p]]

\* a step of the worker inside a tick that has received no change so far and
\* receives none in this step
EmptyTickStep ==
  /\ pc'[W] # pc[W] \/ widx' # widx
  /\ pc[W] \notin {"idle", "crashed"}
  /\ ~anyChange /\ ~anyChange'

\* what such a step leaves alone: Settings, the Objects built, the Objects of the
\* Instances, every toInstance and every Producer channel; a head that changes is
\* the lifo of a fromInstance, emptied; the worker does not enter the sending loop
EmptyTickFrame ==
  [][EmptyTickStep
       => /\ objectSettings' = objectSettings /\ objVal' = objVal
          /\ object' = object /\ lastSent' = lastSent
          /\ \A i \in InstanceIds :
               /\ head'[Lifo(To(i))] = head[Lifo(To(i))]
               /\ head'[Storage(To(i))] = head[Storage(To(i))]
               /\ Payloads(head[Lifo(To(i))])' = Payloads(head[Lifo(To(i))])
               /\ Chain(head[Storage(To(i))])' = Chain(head[Storage(To(i))])
          /\ \A j \in ProducerIds :
               /\ head'[Lifo(Prod(j))] = head[Lifo(Prod(j))]
               /\ head'[Storage(Prod(j))] = head[Storage(Prod(j))]
          /\ \A i \in InstanceIds :
               head'[Lifo(From(i))] # head[Lifo(From(i))]
                 => pc[W] = "tc_from" /\ head'[Lifo(From(i))] = 0
          /\ pc'[W] \notin {"tc_discard", "tc_send", "tc_push_load", "tc_push_cas"}]_vars

\* C37: a tick in which no change is received from any Producer leaves Settings
\* unchanged and sends nothing to any Instance: each of its steps changes at most
\* the fromInstance channels, which it empties and frees, and the tick runs to
\* its end.
C37_EmptyTickOnlyDrains ==
  /\ EmptyTickFrame
  /\ [][EmptyTickStep => pc'[W] # "crashed"]_vars

\* C38: no step of getFromRealtimeThread destroys an Object. The unique_ptrs the
\* realtime thread assigns to are empty when it does: the node of
\* messengerForOldObjects it reuses for the old Object, and currentObjectStorage
\* when the new Object is moved into it. An Object is destroyed once, by a step of
\* the non-realtime thread inside set: the reset of a node popped from
\* messengerForOldObjects, or the assignment to the reused node of
\* messengerForNewObjects.
C38_DestroyedOnlyByNonRealtime ==
  /\ [](pc[RT] = "get_send" /\ head[Storage(messengerForOldObjects)] # 0
          => message[head[Storage(messengerForOldObjects)]] = 0)
  /\ [](pc[RT] = "get_store" => object.currentObjectStorage = 0)
  /\ [](\A o \in 1..nobj : objState[o] \in {"alive", "destroyed"})
  /\ [][\A o \in 1..nobj :
          objState'[o] # objState[o]
            => /\ pc'[RT] = pc[RT] /\ held'[RT] = held[RT] /\ object' = object
               /\ \/ /\ pc[FirstWriter] = "set"
                     /\ o \in Range(Payloads(head[Lifo(messengerForOldObjects)]))
                  \/ /\ pc[FirstWriter] = "set_send"
                     /\ o = message[head[Storage(messengerForNewObjects)]]]_vars

\* the realtime thread is inside its second getFromRealtimeThread that received
\* a version, about to send the old Object on the node that carried the first old
\* Object, which a set has destroyed and whose node it has recycled
C38_Witness ==
  /\ pc[RT] = "get_send"
  /\ head[Storage(messengerForOldObjects)] = Prealloc + 1
  /\ fate[1] = "due" /\ objState[1] = "destroyed"
  /\ object.currentObjectStorage = 2 /\ held[RT] = 3 /\ objState[2] = "alive"

\* C39: the non-realtime thread has only called changeFromNonRealtimeThread, each
\* change adding one to its copy; when all its calls have returned and the
\* realtime thread has received the last version, the Object the realtime thread
\* holds has every change applied: its value is the number of changes made.
OnlyChanges ==
  /\ ret[FirstWriter] = "none"
  /\ \A q \in 2..nobj : objVal[q] \notin SetValues

C39_ChangesCompose ==
  /\ OnlyChanges
  /\ pc[FirstWriter] = "idle" /\ pc[RT] = "idle"
  /\ head[Lifo(messengerForNewObjects)] = 0
  => objVal[object.currentObjectStorage] = nobj - 1

C32_AttachedToAtMostOne ==
  (\A c \in Caller : pc[c] = "idle")
    => \A o \in AsyncObjects :
         /\ Cardinality({th \in AsyncThreads : o \in object.asyncObjects[th]}) <= 1
         /\ \A th \in AsyncThreads :
              object.asyncThread[o] = th <=> o \in object.asyncObjects[th]

\* C35: with the workers running, a call of attachObject or detachObject that
\* waits for the mutex of an AsyncThread eventually takes it and returns.
C35_AttachEventuallyReturns ==
  \A c \in Caller :
    pc[c] \in {"attach_detach", "attach_lock", "detach_lock"} ~> pc[c] = "idle"

\* C33: asyncObjects of an AsyncThread is never inserted into or erased from
\* while its worker iterates it: the worker holds the mutex of the AsyncThread
\* from the start of the iteration to its end, and attachObject and
\* detachObject change the set only in the step in which they take that mutex.
C33_SetNotMutatedWhileIterated ==
  /\ [](\A th \in AsyncThreads :
          pc[Timer(th)] \in {"callbacks", "sleeping"} => mutex[th] = {Timer(th)})
  /\ [][\A th \in AsyncThreads :
          object'.asyncObjects[th] # object.asyncObjects[th]
            => /\ pc[Timer(th)] # "callbacks"
               /\ \E c \in Caller : mutex[th] = {} /\ mutex'[th] = {c}]_vars

====
